---- MODULE Spec2Model ----
(***************************************************************************)
(* Streaming ingestion and request lifecycle of the chat client:           *)
(*   - the group streaming store (zustand) and its startStreaming reader,  *)
(*   - the useAgentAPI hook (requestIdRef generation gate, line framing),  *)
(*   - the App / ChatArea handlers that drive them.                        *)
(* Text is modelled as sequences of one-character strings so that the      *)
(* brace scan, JSON.parse, the quote normalizer and the field validator    *)
(* are computed character by character as the code computes them.          *)
(***************************************************************************)
EXTENDS Integers, Sequences, FiniteSets, TLC

(***************************************************************************)
(* Text helpers                                                            *)
(***************************************************************************)

\* JavaScript null / undefined: a token no text of the model can spell.
NULL == "<null>"

\* A JavaScript string (sequence of characters) as a TLA+ string.
RECURSIVE Str(_)
Str(s) == IF s = <<>> THEN "" ELSE Head(s) \o Str(Tail(s))

\* Concatenation of a sequence of texts.
RECURSIVE Flatten(_)
Flatten(ss) == IF ss = <<>> THEN <<>> ELSE Head(ss) \o Flatten(Tail(ss))

IsPrefix(a, b) == Len(a) <= Len(b) /\ SubSeq(b, 1, Len(a)) = a

\* String.prototype.startsWith
startsWith(s, p) == IsPrefix(p, s)

Whitespace == {" ", "\n", "\t"}

Digits == {"0", "1", "2", "3", "4", "5", "6", "7", "8", "9"}

\* String.prototype.trim() === ""
trimIsEmpty(s) == \A i \in 1..Len(s) : s[i] \in Whitespace

\* String.prototype.replace with a global literal pattern, for a pattern
\* that cannot overlap itself and a replacement of the pattern's length (the
\* four replacements of the code are such): every occurrence is replaced.
replaceAll(s, pat, rep) ==
  LET n      == Len(pat)
      starts == {m \in 1..(Len(s) - n + 1) :
                   s[m] = pat[1] /\ SubSeq(s, m, m + n - 1) = pat}
  IN IF starts = {} THEN s
     ELSE SubSeq([i \in 1..Len(s) |->
                    IF \E d \in 0..(n - 1) : (i - d) \in starts
                    THEN rep[1 + (CHOOSE d \in 0..(n - 1) :
                                    (i - d) \in starts)]
                    ELSE s[i]],
                 1, Len(s))

(***************************************************************************)
(* JSON.parse, for texts made of objects, strings, integers, true, false   *)
(* and null (the modelled texts contain no array and no escape but \").    *)
(* A value is [t, s, f]: t its type, s its characters (string, number,     *)
(* literal), f its members (object: a function from key to value).         *)
(***************************************************************************)

JStr(s) == [t |-> "string", s |-> s, f |-> <<>>]
JNum(s) == [t |-> "number", s |-> s, f |-> <<>>]
JLit(s) == [t |-> s, s |-> <<>>, f |-> <<>>]
JObj(f) == [t |-> "object", s |-> <<>>, f |-> f]

PFail == [ok |-> FALSE, v |-> JLit("undefined"), p |-> 0]
POk(v, p) == [ok |-> TRUE, v |-> v, p |-> p]

RECURSIVE SkipWs(_, _)
SkipWs(t, i) ==
  IF i <= Len(t) /\ t[i] \in Whitespace THEN SkipWs(t, i + 1) ELSE i

\* First position >= i holding character c, or 0.
IndexOf(t, c, i) ==
  IF \E j \in i..Len(t) : t[j] = c
  THEN CHOOSE j \in i..Len(t) : t[j] = c /\ \A k \in i..(j - 1) : t[k] # c
  ELSE 0

\* The closing quote of the string literal opening at t[i]: the first '"'
\* after it that no backslash precedes, or 0.
StringEnd(t, i) ==
  LET ends == {j \in (i + 1)..Len(t) : t[j] = "\"" /\ t[j - 1] # "\\"} IN
  IF ends = {} THEN 0 ELSE CHOOSE j \in ends : \A k \in ends : j <= k

\* The characters of a string body from position k on, every \" read as
\* '"' (the one escape of the modelled texts): the text up to the next
\* escape, the quote, and the rest.
RECURSIVE UnescapedFrom(_, _)
UnescapedFrom(body, k) ==
  LET escapes == {d \in k..(Len(body) - 1) :
                    body[d] = "\\" /\ body[d + 1] = "\""}
  IN IF escapes = {} THEN SubSeq(body, k, Len(body))
     ELSE LET d == CHOOSE e \in escapes : \A f \in escapes : e <= f
          IN SubSeq(body, k, d - 1) \o <<"\"">> \o UnescapedFrom(body, d + 2)

Unescaped(body) == UnescapedFrom(body, 1)

\* A string literal opening at t[i] = '"': it ends at its closing quote; a
\* raw newline or tab inside it is a syntax error.
PString(t, i) ==
  LET j == StringEnd(t, i) IN
  IF j = 0 THEN PFail
  ELSE LET body == SubSeq(t, i + 1, j - 1) IN
       IF \E k \in 1..Len(body) : body[k] \in {"\n", "\t"} THEN PFail
       ELSE POk(JStr(Unescaped(body)), j + 1)

RECURSIVE DigitsEnd(_, _)
DigitsEnd(t, i) ==
  IF i <= Len(t) /\ t[i] \in Digits THEN DigitsEnd(t, i + 1) ELSE i

PNumber(t, i) ==
  LET j == DigitsEnd(t, i) IN
  IF t[i] = "0" /\ j > i + 1 THEN PFail
  ELSE POk(JNum(SubSeq(t, i, j - 1)), j)

PWord(t, i, w, name) ==
  IF i + Len(w) - 1 <= Len(t) /\ SubSeq(t, i, i + Len(w) - 1) = w
  THEN POk(JLit(name), i + Len(w))
  ELSE PFail

RECURSIVE PValue(_, _)
RECURSIVE PMembers(_, _, _)

\* Members of an object from position i (the start of a key) on; acc holds
\* the members read so far, a repeated key keeps its last value.
PMembers(t, i, acc) ==
  LET k == SkipWs(t, i) IN
  IF k > Len(t) \/ t[k] # "\"" THEN PFail
  ELSE LET key == PString(t, k) IN
       IF ~key.ok THEN PFail
       ELSE LET c == SkipWs(t, key.p) IN
            IF c > Len(t) \/ t[c] # ":" THEN PFail
            ELSE LET val == PValue(t, c + 1) IN
                 IF ~val.ok THEN PFail
                 ELSE LET e   == SkipWs(t, val.p)
                          obj == (Str(key.v.s) :> val.v) @@ acc
                      IN IF e > Len(t) THEN PFail
                         ELSE IF t[e] = "," THEN PMembers(t, e + 1, obj)
                         ELSE IF t[e] = "}" THEN POk(JObj(obj), e + 1)
                         ELSE PFail

PValue(t, i) ==
  LET j == SkipWs(t, i) IN
  IF j > Len(t) THEN PFail
  ELSE IF t[j] = "{"
       THEN LET k == SkipWs(t, j + 1) IN
            IF k <= Len(t) /\ t[k] = "}" THEN POk(JObj(<<>>), k + 1)
            ELSE PMembers(t, j + 1, <<>>)
  ELSE IF t[j] = "\"" THEN PString(t, j)
  ELSE IF t[j] \in Digits THEN PNumber(t, j)
  ELSE IF t[j] = "t" THEN PWord(t, j, <<"t", "r", "u", "e">>, "true")
  ELSE IF t[j] = "f" THEN PWord(t, j, <<"f", "a", "l", "s", "e">>, "false")
  ELSE IF t[j] = "n" THEN PWord(t, j, <<"n", "u", "l", "l">>, "null")
  ELSE PFail

\* JSON.parse(t): [ok, v]; ok = FALSE stands for the SyntaxError it throws.
JSONParse(t) ==
  LET r == PValue(t, 1) IN
  IF r.ok /\ SkipWs(t, r.p) > Len(t) THEN [ok |-> TRUE, v |-> r.v]
  ELSE [ok |-> FALSE, v |-> JLit("undefined")]

\* obj[key] of a parsed value: undefined when the member is absent or the
\* value is no object.
Get(v, key) ==
  IF v.t = "object" /\ key \in DOMAIN v.f THEN v.f[key] ELSE JLit("undefined")

\* JavaScript truthiness of a parsed value.
Truthy(v) ==
  CASE v.t = "string" -> v.s # <<>>
    [] v.t = "number" -> v.s # <<"0">>
    [] v.t \in {"false", "null", "undefined"} -> FALSE
    [] OTHER -> TRUE

(***************************************************************************)
(* The group streaming store (zustand): state and setters                  *)
(***************************************************************************)

initialState ==
  [events |-> <<>>, finalResponse |-> NULL, isStreaming |-> FALSE,
   isComplete |-> FALSE, error |-> NULL, currentOrderId |-> NULL,
   executionKey |-> NULL]

\* The terminal marker tested by addEvent.
DELIVERED == "DELIVERED"

\* An addEvent that would put the event in front of the log.
addEventInFront(st, event) ==
  LET delivered == Str(Get(event, "state").s) = DELIVERED IN
  [st EXCEPT !.events = <<event>> \o st.events,
             !.currentOrderId = Str(Get(event, "order_id").s),
             !.isComplete = IF delivered THEN TRUE ELSE st.isComplete,
             !.isStreaming = IF delivered THEN FALSE ELSE st.isStreaming]

\* An addEvent that would leave currentOrderId as it is.
addEventKeepingOrderId(st, event) ==
  LET delivered == Str(Get(event, "state").s) = DELIVERED IN
  [st EXCEPT !.events = Append(st.events, event),
             !.isComplete = IF delivered THEN TRUE ELSE st.isComplete,
             !.isStreaming = IF delivered THEN FALSE ELSE st.isStreaming]

addEvent(st, event) ==
  LET delivered == Str(Get(event, "state").s) = DELIVERED IN
  [st EXCEPT !.events = Append(st.events, event),
             !.currentOrderId = Str(Get(event, "order_id").s),
             !.isComplete = IF delivered THEN TRUE ELSE st.isComplete,
             !.isStreaming = IF delivered THEN FALSE ELSE st.isStreaming]

setFinalResponse(st, response) ==
  [st EXCEPT !.finalResponse = response, !.isComplete = TRUE,
             !.isStreaming = FALSE]

\* A setError that would leave isStreaming as it is.
setErrorKeepingStreaming(st, error) ==
  [st EXCEPT !.error = error, !.isComplete = TRUE]

setError(st, error) ==
  [st EXCEPT !.error = error, !.isComplete = TRUE, !.isStreaming = FALSE]

setStreaming(st, streaming) == [st EXCEPT !.isStreaming = streaming]

\* A setComplete that would leave isStreaming as it is.
setCompleteKeepingStreaming(st, complete) ==
  [st EXCEPT !.isComplete = complete]

setComplete(st, complete) ==
  [st EXCEPT !.isComplete = complete, !.isStreaming = FALSE]

\* A reset that would keep the event log.
resetKeepingEvents(st) == [initialState EXCEPT !.events = st.events]

reset(st) == initialState

(***************************************************************************)
(* Quasi-JSON normalization and validation of a domain event               *)
(***************************************************************************)

requiredStringFields ==
  <<"order_id", "sender", "receiver", "message", "timestamp", "state">>

isValidLogisticsStreamStep(data) ==
  /\ Truthy(data)
  /\ data.t = "object"
  /\ \A i \in 1..Len(requiredStringFields) :
       LET fld == Get(data, requiredStringFields[i]) IN
       fld.t = "string" /\ ~trimIsEmpty(fld.s)

\* A normalization that would leave the single quotes in place.
normalizeDictKeepingQuotes(response) ==
  replaceAll(replaceAll(replaceAll(response,
                                   <<"T", "r", "u", "e">>,
                                   <<"t", "r", "u", "e">>),
                        <<"F", "a", "l", "s", "e">>,
                        <<"f", "a", "l", "s", "e">>),
             <<"N", "o", "n", "e">>, <<"n", "u", "l", "l">>)

\* parsed.response.replace(/'/g, '"').replace(/True/g, "true")
\*                .replace(/False/g, "false").replace(/None/g, "null")
normalizeDict(response) ==
  LET a == replaceAll(response, <<"'">>, <<"\"">>)
      b == replaceAll(a, <<"T", "r", "u", "e">>, <<"t", "r", "u", "e">>)
      c == replaceAll(b, <<"F", "a", "l", "s", "e">>,
                      <<"f", "a", "l", "s", "e">>)
  IN replaceAll(c, <<"N", "o", "n", "e">>, <<"n", "u", "l", "l">>)

\* A test that would look at the opening brace only.
isDictStringByBrace(response) == startsWith(response, <<"{">>)

\* The sentinel test: the response opens an embedded literal-style object.
isDictString(response) ==
  \/ startsWith(response, <<"{", "'">>)
  \/ startsWith(response, <<"{", "\"">>)

(***************************************************************************)
(* The brace-counted extractor of startStreaming                           *)
(***************************************************************************)

\* A depth that would skip the braces inside string content: a brace counts
\* only after an even number of quotes.
braceCountOutsideStrings(remaining, i) ==
  LET outside == {j \in 1..i :
                    Cardinality({q \in 1..j : remaining[q] = "\""}) % 2 = 0}
  IN Cardinality({j \in outside : remaining[j] = "{"})
       - Cardinality({j \in outside : remaining[j] = "}"})

\* braceCount after the for loop has looked at remaining[1..i]: it goes up
\* at every '{' and down at every '}', below zero too.
braceCountAt(remaining, i) ==
  Cardinality({j \in 1..i : remaining[j] = "{"})
    - Cardinality({j \in 1..i : remaining[j] = "}"})

\* The for loop over remaining: the index of the first '}' at which
\* braceCount is zero, or 0 when there is none (jsonEnd === -1).
jsonEndOf(remaining) ==
  LET ends == {i \in 1..Len(remaining) :
                 remaining[i] = "}" /\ braceCountAt(remaining, i) = 0}
  IN IF ends = {} THEN 0 ELSE CHOOSE i \in ends : \A j \in ends : i <= j

\* What one candidate does: the store after it, and whether startStreaming
\* returned (a final response was set).  From the innermost block outwards:

\* A handler that would append every event that parses.
handleEventUnvalidated(st, eventObj) ==
  IF eventObj.ok /\ eventObj.v.t = "object"
  THEN [store |-> addEvent(st, eventObj.v), returned |-> FALSE]
  ELSE [store |-> st, returned |-> FALSE]

\* eventObj = JSON.parse(jsonResponse); addEvent if it validates; a failed
\* parse is caught and logged.
handleEvent(st, eventObj) ==
  IF eventObj.ok /\ isValidLogisticsStreamStep(eventObj.v)
  THEN [store |-> addEvent(st, eventObj.v), returned |-> FALSE]
  ELSE [store |-> st, returned |-> FALSE]

\* if (parsed.response && typeof parsed.response === "string") { ... }
handleResponse(st, response) ==
  IF ~(Truthy(response) /\ response.t = "string")
  THEN [store |-> st, returned |-> FALSE]
  ELSE IF isDictString(response.s)
       THEN handleEvent(st, JSONParse(normalizeDict(response.s)))
  ELSE [store |-> setFinalResponse(st, Str(response.s)), returned |-> TRUE]

\* parsed = JSON.parse(jsonStr); a failed parse is caught and logged.
handleParsed(st, parsed) ==
  IF ~parsed.ok THEN [store |-> st, returned |-> FALSE]
  ELSE handleResponse(st, Get(parsed.v, "response"))

handleFrame(st, jsonStr) == handleParsed(st, JSONParse(jsonStr))

\* The while (remaining.length > 0) loop: the store, the buffer kept for the
\* next read, whether the function returned, and the candidates handed to
\* JSON.parse, in order.
RECURSIVE drain(_, _, _)

\* A loop that would go on with the next candidate after a final response.
drainFrameGoingOn(remaining, jsonEnd, cands, r) ==
  drain(r.store, SubSeq(remaining, jsonEnd + 1, Len(remaining)),
        Append(cands, SubSeq(remaining, 1, jsonEnd)))

\* After the try block of the candidate remaining[1..jsonEnd], r its outcome.
drainFrame(remaining, jsonEnd, cands, r) ==
  IF r.returned
  THEN [store |-> r.store, buffer |-> remaining, returned |-> TRUE,
        cands |-> Append(cands, SubSeq(remaining, 1, jsonEnd))]
  ELSE drain(r.store, SubSeq(remaining, jsonEnd + 1, Len(remaining)),
             Append(cands, SubSeq(remaining, 1, jsonEnd)))

\* A scan that would drop an unfinished rest instead of keeping it.
drainScannedDroppingRest(st, remaining, cands, jsonEnd) ==
  IF jsonEnd = 0
  THEN [store |-> st, buffer |-> <<>>, returned |-> FALSE, cands |-> cands]
  ELSE drainFrame(remaining, jsonEnd, cands,
                  handleFrame(st, SubSeq(remaining, 1, jsonEnd)))

\* After the brace scan: no complete candidate (the rest is kept as the
\* buffer), or the candidate jsonStr = remaining.substring(0, jsonEnd + 1).
drainScanned(st, remaining, cands, jsonEnd) ==
  IF jsonEnd = 0
  THEN [store |-> st, buffer |-> remaining, returned |-> FALSE,
        cands |-> cands]
  ELSE drainFrame(remaining, jsonEnd, cands,
                  handleFrame(st, SubSeq(remaining, 1, jsonEnd)))

drain(st, remaining, cands) ==
  IF remaining = <<>>
  THEN [store |-> st, buffer |-> remaining, returned |-> FALSE,
        cands |-> cands]
  ELSE drainScanned(st, remaining, cands, jsonEndOf(remaining))

\* An iteration that would scan the chunk alone, without the text kept from
\* the reads before.
processChunkAlone(st, buffer, chunk) == drain(st, chunk, <<>>)

\* One iteration of the read loop on a chunk: buffer += chunk, then the scan.
processChunk(st, buffer, chunk) == drain(st, buffer \o chunk, <<>>)

(***************************************************************************)
(* Texts on the wire                                                       *)
(***************************************************************************)

\* The three fragments of the end-to-end scenario.
E2E_1 ==
  <<"{", "\"", "r", "e", "s", "p", "o">>

E2E_2 ==
  <<"n", "s", "e", "\"", ":", " ", "\"", "{", "'", "o", "r", "d", "e", "r",
    "_", "i", "d", "'", ":", " ", "'", "1", "'", ",", " ", "'", "s", "e",
    "n", "d", "e", "r", "'", ":", " ", "'", "A", "'", ",", " ", "'", "r",
    "e", "c", "e", "i", "v", "e", "r", "'", ":", "'", "B", "'", ",", "'",
    "m", "e", "s", "s", "a", "g", "e", "'", ":", "'", "h", "i", "'", ",",
    "'", "t", "i", "m", "e", "s", "t", "a", "m", "p", "'", ":", "'", "t",
    "'", ",", "'", "s", "t", "a">>

E2E_3 ==
  <<"t", "e", "'", ":", "'", "D", "E", "L", "I", "V", "E", "R", "E", "D",
    "'", "}", "\"", "}">>

\* A frame carrying a non-terminal domain event, cut inside a key.
EvSent_a ==
  <<"{", "\"", "r", "e", "s", "p", "o", "n", "s", "e", "\"", ":", "\"",
    "{", "'", "o", "r", "d", "e", "r", "_", "i", "d", "'", ":", "'", "7",
    "'", ",", "'", "s", "e", "n", "d", "e", "r", "'", ":", "'", "A">>

EvSent_b ==
  <<"'", ",", "'", "r", "e", "c", "e", "i", "v", "e", "r", "'", ":", "'",
    "B", "'", ",", "'", "m", "e", "s", "s", "a", "g", "e", "'", ":", "'",
    "m", "'", ",", "'", "t", "i", "m", "e", "s", "t", "a", "m", "p", "'",
    ":", "'", "t", "'", ",", "'", "s", "t", "a", "t", "e", "'", ":", "'",
    "S", "E", "N", "T", "'", "}", "\"", "}">>

\* A frame carrying a plain-text final response.
FrFinal ==
  <<"{", "\"", "r", "e", "s", "p", "o", "n", "s", "e", "\"", ":", "\"",
    "o", "k", "\"", "}">>

\* Frames that are valid JSON and carry no response.
FrEmpty ==
  <<"{", "}">>

FrNested ==
  <<"{", "\"", "a", "\"", ":", "{", "}", "}">>

\* A frame that fails JSON.parse.
FrNoise ==
  <<"{", "x", "}">>

\* A frame whose string content holds an unmatched brace.
FrBraceStr ==
  <<"{", "\"", "a", "\"", ":", "\"", "}", "\"", "}">>

\* A frame whose sentinel-prefixed response fails the strict parse.
FrBadDict ==
  <<"{", "\"", "r", "e", "s", "p", "o", "n", "s", "e", "\"", ":", "\"", "{",
    "'", "a", "'", ":", "}", "\"", "}">>

\* A frame whose event lacks required fields.
FrInvalid ==
  <<"{", "\"", "r", "e", "s", "p", "o", "n", "s", "e", "\"", ":", "\"", "{",
    "'", "o", "r", "d", "e", "r", "_", "i", "d", "'", ":", "'", "7", "'", "}",
    "\"", "}">>

\* A frame whose event has a blank required field.
FrBlankField ==
  <<"{", "\"", "r", "e", "s", "p", "o", "n", "s", "e", "\"", ":", "\"", "{",
    "'", "o", "r", "d", "e", "r", "_", "i", "d", "'", ":", "'", "7", "'", ",",
    "'", "s", "e", "n", "d", "e", "r", "'", ":", "'", " ", "'", ",", "'", "r",
    "e", "c", "e", "i", "v", "e", "r", "'", ":", "'", "B", "'", ",", "'", "m",
    "e", "s", "s", "a", "g", "e", "'", ":", "'", "m", "'", ",", "'", "t", "i",
    "m", "e", "s", "t", "a", "m", "p", "'", ":", "'", "t", "'", ",", "'", "s",
    "t", "a", "t", "e", "'", ":", "'", "S", "E", "N", "T", "'", "}", "\"",
    "}">>

\* A text as a wire that the transport may cut after any character.
Chars(text) == [i \in 1..Len(text) |-> <<text[i]>>]

\* The texts made of at most n of the given pieces.
RECURSIVE Concats(_, _)
Concats(pieces, n) ==
  IF n = 0 THEN {<<>>}
  ELSE LET shorter == Concats(pieces, n - 1) IN
       shorter \cup {t \o q : t \in shorter, q \in pieces}

\* Most startStreaming calls in one behaviour of the group specification.
MaxStreams == 2

\* Most pieces in a text of the extractor specification.
MaxFrames == 2

\* A wire is a sequence of units; a read delivers one or more whole units.
E2EWire == <<E2E_1, E2E_2, E2E_3>>

GroupWires ==
  { <<EvSent_a, EvSent_b \o FrFinal>>,
    <<E2E_1 \o E2E_2 \o E2E_3, EvSent_a \o EvSent_b>> }

\* The same texts, and texts whose final response is followed by events.
FinalWires ==
  GroupWires
    \cup { <<FrFinal \o EvSent_a, EvSent_b>>,
           <<EvSent_a \o EvSent_b, FrFinal, EvSent_a \o EvSent_b>> }

\* A text that the server cuts inside a frame.
TruncatedWires == { <<EvSent_a \o EvSent_b, EvSent_a>> }

\* Texts with frames that are rejected, before and after valid events.
RejectWires ==
  { <<FrNoise \o FrBadDict, FrInvalid \o EvSent_a \o EvSent_b>>,
    <<EvSent_a \o EvSent_b \o FrBlankField, E2E_1 \o E2E_2 \o E2E_3>> }

\* The texts whose frames are not all applied.
DroppedWires == TruncatedWires \cup RejectWires

ExtractPieces == {FrEmpty, FrNested, FrFinal, FrNoise, FrBraceStr, <<" ">>}

ExtractWires ==
  {Chars(t) : t \in Concats(ExtractPieces, MaxFrames) \ {<<>>}}
    \cup {E2EWire}


(***************************************************************************)
(* useAgentAPI: the message list and the line-delimited reader             *)
(***************************************************************************)

Msg(id, role, content, animate) ==
  [id |-> id, role |-> role, content |-> content, animate |-> animate]

LoadingPlaceholder == "loading-placeholder"

\* uuid(): a fresh identifier, named after its use and the request using it.
uuid(use, r) == use \o "-" \o ToString(r)

notPlaceholder(m) == m.id # LoadingPlaceholder

\* prev.filter(m => m.id !== "loading-placeholder")
withoutPlaceholder(prev) == SelectSeq(prev, notPlaceholder)

\* Array.prototype.findIndex on the id; 0 stands for -1.
findIndex(list, id) ==
  IF \E i \in 1..Len(list) : list[i].id = id
  THEN CHOOSE i \in 1..Len(list) :
         list[i].id = id /\ \A j \in 1..(i - 1) : list[j].id # id
  ELSE 0

\* The string that + and a callback see for a truthy parsed value.
toText(v) ==
  CASE v.t \in {"string", "number"} -> Str(v.s)
    [] v.t = "true" -> "true"
    [] OTHER -> "[object Object]"

appendTokenAt(filtered, existingIndex, activeAssistantMessageId, chunk) ==
  IF existingIndex # 0
  THEN [filtered EXCEPT ![existingIndex].content = @ \o chunk,
                        ![existingIndex].animate = FALSE]
  ELSE Append(filtered, Msg(activeAssistantMessageId, "assistant", chunk, TRUE))

\* The setMessages updater of a token: the placeholder goes, the token is
\* appended to the request's assistant message or opens it.
appendToken(prevMessages, activeAssistantMessageId, chunk) ==
  appendTokenAt(withoutPlaceholder(prevMessages),
                findIndex(withoutPlaceholder(prevMessages),
                          activeAssistantMessageId),
                activeAssistantMessageId, chunk)

\* A body that would take the placeholder away on a line without a token.
applyDataHidingPlaceholder(acc, data, activeAssistantMessageId) ==
  [acc EXCEPT
     !.nodes = IF Truthy(Get(data, "node"))
               THEN Append(@, toText(Get(data, "node"))) ELSE @,
     !.deltas = IF Truthy(Get(data, "response"))
                THEN Append(@, toText(Get(data, "response"))) ELSE @,
     !.messages = IF Truthy(Get(data, "response"))
                  THEN appendToken(@, activeAssistantMessageId,
                                   toText(Get(data, "response")))
                  ELSE withoutPlaceholder(@)]

\* The body of the try block for parsed data: chunk = data.response || "",
\* nodeId = data.node; the highlight, then the token.
applyData(acc, data, activeAssistantMessageId) ==
  [acc EXCEPT
     !.nodes = IF Truthy(Get(data, "node"))
               THEN Append(@, toText(Get(data, "node"))) ELSE @,
     !.deltas = IF Truthy(Get(data, "response"))
                THEN Append(@, toText(Get(data, "response"))) ELSE @,
     !.messages = IF Truthy(Get(data, "response"))
                  THEN appendToken(@, activeAssistantMessageId,
                                   toText(Get(data, "response")))
                  ELSE @]

\* A handler that would show an error for a line that fails to parse.
handleParsedLineFailing(acc, parsed, activeAssistantMessageId) ==
  IF ~parsed.ok \/ parsed.v.t = "null"
  THEN [acc EXCEPT !.messages =
          Append(@, Msg("error", "assistant", "Error: Failed to fetch stream.",
                        FALSE))]
  ELSE applyData(acc, parsed.v, activeAssistantMessageId)

\* JSON.parse(line) throws, or data is null and data.response throws: the
\* error is caught and logged.
handleParsedLine(acc, parsed, activeAssistantMessageId) ==
  IF ~parsed.ok \/ parsed.v.t = "null" THEN acc
  ELSE applyData(acc, parsed.v, activeAssistantMessageId)

\* if (!line.trim()) continue
handleLine(acc, line, activeAssistantMessageId) ==
  IF trimIsEmpty(line) THEN acc
  ELSE handleParsedLine(acc, JSONParse(line), activeAssistantMessageId)

\* One turn of for (const line of lines); cands is history: the lines taken.
takeLine(acc, line, activeAssistantMessageId) ==
  handleLine([acc EXCEPT !.cands = Append(@, line)], line,
             activeAssistantMessageId)

\* lines = buffer.split('\n'); buffer = lines.pop() || ''; for each line ...
\* nl is the index of the first newline of the text not yet split, 0 if none.
RECURSIVE lineLoop(_, _, _)

\* A split that would take the unfinished last line too.
lineLoopAtEager(acc, buffer, activeAssistantMessageId, nl) ==
  IF nl = 0
  THEN IF buffer = <<>> THEN [acc EXCEPT !.buffer = buffer]
       ELSE [takeLine(acc, buffer, activeAssistantMessageId)
               EXCEPT !.buffer = <<>>]
  ELSE lineLoop(takeLine(acc, SubSeq(buffer, 1, nl - 1),
                         activeAssistantMessageId),
                SubSeq(buffer, nl + 1, Len(buffer)),
                activeAssistantMessageId)

lineLoopAt(acc, buffer, activeAssistantMessageId, nl) ==
  IF nl = 0 THEN [acc EXCEPT !.buffer = buffer]
  ELSE lineLoop(takeLine(acc, SubSeq(buffer, 1, nl - 1),
                         activeAssistantMessageId),
                SubSeq(buffer, nl + 1, Len(buffer)),
                activeAssistantMessageId)

lineLoop(acc, buffer, activeAssistantMessageId) ==
  lineLoopAt(acc, buffer, activeAssistantMessageId, IndexOf(buffer, "\n", 1))

\* An iteration that would split the chunk alone, without the text kept
\* from the reads before.
processLinesOfChunk(prevMessages, buffer, chunk, activeAssistantMessageId) ==
  lineLoop([messages |-> prevMessages, nodes |-> <<>>, deltas |-> <<>>,
            cands |-> <<>>, buffer |-> <<>>],
           chunk, activeAssistantMessageId)

\* One iteration of the read loop on a chunk: buffer += chunk, then the lines.
processLines(prevMessages, buffer, chunk, activeAssistantMessageId) ==
  lineLoop([messages |-> prevMessages, nodes |-> <<>>, deltas |-> <<>>,
            cands |-> <<>>, buffer |-> <<>>],
           buffer \o chunk, activeAssistantMessageId)

\* A test that would leave the loop at the end of the stream only.
loopBreaksOnDoneOnly(done, current, myRequestId) == done

\* while (true): the test that leaves the loop after a read.
loopBreaks(done, current, myRequestId) == done \/ current # myRequestId

\* App.handleApiResponse: the last message is rewritten.
handleApiResponse(prev, response, isError) ==
  IF prev = <<>> THEN prev
  ELSE [prev EXCEPT ![Len(prev)].content = response,
                    ![Len(prev)].animate = ~isError]

\* The internal onRetryAttempt of the non-streaming path: the last message
\* is rewritten (on an empty list the updater throws and nothing changes).
onRetryAttempt(prev, attempt, maxRetries) ==
  IF prev = <<>> THEN prev
  ELSE [prev EXCEPT ![Len(prev)].content =
          "Retrying... (" \o ToString(attempt) \o "/" \o ToString(maxRetries)
            \o ")"]

\* A fallback that would leave the loading placeholder in the list.
fallbackKeepingPlaceholder(prev, current, id, content) ==
  IF current THEN Append(prev, Msg(id, "assistant", content, FALSE))
  ELSE prev

\* The fallback message of a catch block, added if the request is current.
fallback(prev, current, id, content) ==
  IF current
  THEN Append(withoutPlaceholder(prev), Msg(id, "assistant", content, FALSE))
  ELSE prev

\* The assistant message of a non-streaming success, added if current.
answer(prev, current, id, responseText) ==
  IF current
  THEN Append(withoutPlaceholder(prev),
              Msg(id, "assistant", responseText, TRUE))
  ELSE prev

StreamError == "Error: Failed to fetch stream."
SorryError == "Sorry, I encountered an error."

(***************************************************************************)
(* patternUtils and retryUtils                                             *)
(***************************************************************************)

PROVISIONING == "provisioning"

Patterns == {PROVISIONING, "publish_subscribe", "group_communication"}

isProvisioningPattern(pattern) == pattern = PROVISIONING

shouldEnableRetries(pattern) == pattern = "group_communication"

\* RETRY_CONFIG.maxRetries: the attempts withRetry makes.
maxRetries == 3

\* RETRY_CONFIG base delay, in units of time.
baseDelay == 1

RECURSIVE Pow2(_)
Pow2(n) == IF n = 0 THEN 1 ELSE 2 * Pow2(n - 1)

\* The delay before the retry that follows the failed attempt number attempt.
retryDelay(attempt) == baseDelay * Pow2(attempt - 1)

\* withRetry after a failed attempt: retry if attempts remain.
retries(pattern, attempt) ==
  shouldEnableRetries(pattern) /\ attempt < maxRetries

(***************************************************************************)
(* Line-delimited texts on the wire                                        *)
(***************************************************************************)

LnA ==
  <<"{", "\"", "r", "e", "s", "p", "o", "n", "s", "e", "\"", ":", "\"", "a",
    "\"", "}", "\n">>

LnNode ==
  <<"{", "\"", "n", "o", "d", "e", "\"", ":", "\"", "n", "\"", "}", "\n">>

LnNoise ==
  <<"x", "\n">>

LnBlank ==
  <<" ", "\n">>

\* A line whose newline never arrives.
LnOpen ==
  <<"{", "\"", "r", "e", "s", "p", "o", "n", "s", "e", "\"", ":", "\"", "c",
    "\"", "}">>

LnBoth_a ==
  <<"{", "\"", "r", "e", "s", "p", "o", "n", "s", "e", "\"", ":", "\"", "b",
    "\"", ",", "\"", "n", "o">>

LnBoth_b ==
  <<"d", "e", "\"", ":", "\"", "m", "\"", "}", "\n">>

\* A line with an empty response and a node.
LnQuiet ==
  <<"{", "\"", "r", "e", "s", "p", "o", "n", "s", "e", "\"", ":", "\"",
    "\"", ",", "\"", "n", "o", "d", "e", "\"", ":", "\"", "q", "\"", "}",
    "\n">>

LinePieces == {LnA, LnNode, LnNoise, LnBlank, LnOpen, LnQuiet}

LineWires == {Chars(t) : t \in Concats(LinePieces, MaxFrames) \ {<<>>}}

ApiWires == { <<LnA \o LnBoth_a, LnBoth_b \o LnOpen>> }

\* The response texts of the non-streaming endpoint.
Responses == {"pong"}

\* Most requests issued in one behaviour of the API specification.
MaxRequests == 2

\* cancel and resetWebSocket are not called once requestIdRef is this high.
MaxRequestId == 3

\* Most clearings of the conversation in one behaviour.
MaxClears == 1

(***************************************************************************)
(* State                                                                   *)
(***************************************************************************)

VARIABLES
  store,         \* the group streaming store
  streams,       \* the startStreaming calls, in call order
  requestIdRef,  \* per useAgentAPI instance: requestIdRef.current
  loading,       \* per useAgentAPI instance: the loading state
  abortRef,      \* per useAgentAPI instance: the request whose controller
                 \* abortRef.current holds, 0 for null
  threadId,      \* sessionStorage 'provisioning_thread_id': the request that
                 \* generated it, 0 when the item is absent
  messages,      \* App's message list
  requests,      \* the sendMessage / sendMessageWithCallback calls
  lastOp         \* history: the last step's operation, the call that took
                 \* it, the status the store had before it and whether the
                 \* call was stale before it

groupVars == <<store, streams>>

apiVars == <<requestIdRef, loading, abortRef, threadId, messages, requests>>

vars ==
  <<store, streams, requestIdRef, loading, abortRef, threadId, messages,
    requests, lastOp>>

\* The components that call useAgentAPI(): each has its own refs and state.
Inst == {"App", "ChatArea"}

\* The text a call has read so far.
Delivered(s) == Flatten(SubSeq(s.wire, 1, s.pos))

InFlight(s) == s.pc \in {"fetch", "read"}

\* The status of the session state machine that a store state stands for.
Status(st) ==
  IF st.error # NULL THEN "Error"
  ELSE IF st.isComplete THEN "Complete"
  ELSE IF st.isStreaming THEN "Streaming"
  ELSE "Idle"

Op(name, i) ==
  [op |-> name, id |-> i, was |-> Status(store), stale |-> FALSE]

\* requestIdRef.current === myRequestId
IsCurrent(q) == requestIdRef[q.inst] = q.myRequestId

Pending(q) == q.pc \in {"fetch", "read", "http", "backoff"}

ApiOp(name, r) ==
  [op |-> name, id |-> r, was |-> Status(store),
   stale |-> ~IsCurrent(requests[r])]

\* The welcome message ChatArea sets on mount (pattern is provisioning and
\* the list is empty).
Welcome == Msg("welcome", "assistant", "Welcome", FALSE)

Init ==
  /\ store = initialState
  /\ streams = <<>>
  /\ requestIdRef = [c \in Inst |-> 0]
  /\ loading = [c \in Inst |-> FALSE]
  /\ abortRef = [c \in Inst |-> 0]
  /\ threadId = 0
  /\ messages = <<Welcome>>
  /\ requests = <<>>
  /\ lastOp = [op |-> "init", id |-> 0, was |-> "Idle", stale |-> FALSE]

(***************************************************************************)
(* startStreaming, one action per stretch between two awaits               *)
(***************************************************************************)

\* The call up to the fetch: reset(), setStreaming(true).  undisturbed is
\* history: no other call was in flight at this call's start and neither a
\* call nor a reset has happened since.
StartStreaming ==
  /\ store' = setStreaming(reset(store), TRUE)
  /\ streams' =
       Append([i \in 1..Len(streams) |->
                 [streams[i] EXCEPT !.undisturbed = FALSE]],
              [pc |-> "fetch", wire |-> <<>>, pos |-> 0, reads |-> 0,
               buffer |-> <<>>, cands |-> <<>>,
               undisturbed |-> \A i \in 1..Len(streams) :
                                 ~InFlight(streams[i])])
  /\ lastOp' = Op("startStreaming", Len(streams) + 1)
  /\ UNCHANGED apiVars

\* The fetch resolves with an ok response that has a body: the reader is
\* taken, the server's text is w.
FetchOk(i, w) ==
  /\ streams[i].pc = "fetch"
  /\ streams' = [streams EXCEPT ![i].pc = "read", ![i].wire = w]
  /\ store' = store
  /\ lastOp' = Op("fetchOk", i)
  /\ UNCHANGED apiVars

FetchErrors ==
  {"Failed to fetch", "HTTP 500: Internal Server Error",
   "No response body reader available"}

\* The fetch rejects, the status is not ok or there is no body reader: the
\* outer catch calls setError.
FetchFail(i, message) ==
  /\ streams[i].pc = "fetch"
  /\ streams' = [streams EXCEPT ![i].pc = "failed"]
  /\ store' = setError(store, message)
  /\ lastOp' = Op("fetchFail", i)
  /\ UNCHANGED apiVars

\* reader.read() resolves with a chunk; r is what the loop body does with it.
\* reads is history: the reads so far, counted up to the number of fragments
\* of the end-to-end scenario.
ReadChunkApply(i, k, r) ==
  /\ store' = r.store
  /\ streams' = [streams EXCEPT
                   ![i].pc = IF r.returned THEN "returned" ELSE "read",
                   ![i].pos = streams[i].pos + k,
                   ![i].reads = IF @ < Len(E2EWire) THEN @ + 1 ELSE @,
                   ![i].buffer = r.buffer,
                   ![i].cands = streams[i].cands \o r.cands]
  /\ lastOp' = Op("readChunk", i)
  /\ UNCHANGED apiVars

\* The chunk made of the next k units of the wire.
NextChunk(s, k) == Flatten(SubSeq(s.wire, s.pos + 1, s.pos + k))

ReadChunk(i, k) ==
  /\ streams[i].pc = "read"
  /\ streams[i].pos + k <= Len(streams[i].wire)
  /\ ReadChunkApply(i, k, processChunk(store, streams[i].buffer,
                                       NextChunk(streams[i], k)))

\* A close of the stream that would leave the store as it is.
ReadDoneLeavingStore(i) ==
  /\ streams[i].pc = "read"
  /\ streams[i].pos = Len(streams[i].wire)
  /\ streams' = [streams EXCEPT ![i].pc = "closed"]
  /\ lastOp' = Op("readDone", i)
  /\ UNCHANGED <<store, apiVars>>

\* reader.read() resolves with done: the loop ends, setComplete(true).
ReadDone(i) ==
  /\ streams[i].pc = "read"
  /\ streams[i].pos = Len(streams[i].wire)
  /\ streams' = [streams EXCEPT ![i].pc = "closed"]
  /\ store' = setComplete(store, TRUE)
  /\ lastOp' = Op("readDone", i)
  /\ UNCHANGED apiVars

\* reader.read() rejects: the outer catch calls setError.
ReadFail(i) ==
  /\ streams[i].pc = "read"
  /\ streams' = [streams EXCEPT ![i].pc = "failed"]
  /\ store' = setError(store, "network error")
  /\ lastOp' = Op("readFail", i)
  /\ UNCHANGED apiVars

\* Every call of the group store is marked as disturbed.
Disturbed(ss) == [i \in 1..Len(ss) |-> [ss[i] EXCEPT !.undisturbed = FALSE]]

\* reset() of the store called by the application (resetGroup).
Reset ==
  /\ store' = reset(store)
  /\ streams' = Disturbed(streams)
  /\ lastOp' = Op("reset", 0)
  /\ UNCHANGED apiVars

(***************************************************************************)
(* useAgentAPI, one action per stretch between two awaits                  *)
(***************************************************************************)

\* A request record.  kind: "stream" and "http" are the two paths of
\* sendMessageWithCallback, "send" is sendMessage.  History: cands, nodes,
\* deltas (lines taken, highlights and tokens applied), delays, cleared (the
\* conversation was cleared while the request was pending), thread (the
\* thread_id sent), onSuccess / onError / onRetry (invocation counts) and
\* result (what sendMessage returned or threw).
NewRequest(inst, kind, pattern, myRequestId, thread) ==
  [inst |-> inst, kind |-> kind, pattern |-> pattern,
   myRequestId |-> myRequestId,
   pc |-> IF kind = "stream" THEN "fetch" ELSE "http",
   aborted |-> FALSE, wire |-> <<>>, pos |-> 0, buffer |-> <<>>,
   cands |-> <<>>, nodes |-> <<>>, deltas |-> <<>>, attempt |-> 1,
   delays |-> <<>>, cleared |-> FALSE, thread |-> thread, onSuccess |-> 0,
   onError |-> 0, onRetry |-> 0, result |-> NULL]

Prompt == "hi"

\* A lookup that would generate a thread id for every request.
threadIdAlwaysNew(stored, fresh) == fresh

\* sessionStorage.getItem('provisioning_thread_id') || uuid(): the stored id,
\* or a new one when none is stored.
threadIdOf(stored, fresh) == IF stored = 0 THEN fresh ELSE stored

\* sendMessageWithCallback up to its first await: the id is taken, the user
\* message and the placeholder are appended, loading is set; the streaming
\* path reads or creates the thread id.
SendMessageWithCallback(inst, pattern) ==
  /\ requestIdRef' = [requestIdRef EXCEPT ![inst] = @ + 1]
  /\ messages' =
       messages \o
         <<Msg(uuid("user", Len(requests) + 1), "user", Prompt, FALSE),
           Msg(LoadingPlaceholder, "assistant", "Thinking . . .", TRUE)>>
  /\ loading' = [loading EXCEPT ![inst] = TRUE]
  /\ abortRef' = [abortRef EXCEPT ![inst] = Len(requests) + 1]
  /\ threadId' =
       IF isProvisioningPattern(pattern)
       THEN threadIdOf(threadId, Len(requests) + 1) ELSE threadId
  /\ requests' =
       Append(requests,
              NewRequest(inst,
                         IF isProvisioningPattern(pattern)
                         THEN "stream" ELSE "http",
                         pattern, requestIdRef[inst] + 1,
                         IF isProvisioningPattern(pattern)
                         THEN threadId' ELSE 0))
  /\ lastOp' = Op("sendMessageWithCallback", Len(requests) + 1)
  /\ UNCHANGED groupVars

\* sendMessage up to its first await (the prompt is not blank).
SendMessage(inst, pattern) ==
  /\ requestIdRef' = [requestIdRef EXCEPT ![inst] = @ + 1]
  /\ loading' = [loading EXCEPT ![inst] = TRUE]
  /\ abortRef' = [abortRef EXCEPT ![inst] = Len(requests) + 1]
  /\ requests' =
       Append(requests,
              NewRequest(inst, "send", pattern, requestIdRef[inst] + 1, 0))
  /\ lastOp' = Op("sendMessage", Len(requests) + 1)
  /\ UNCHANGED <<groupVars, threadId, messages>>

\* The catch block of the streaming path, then ChatArea's onError, which
\* calls handleApiResponse("Sorry, I encountered an error.", true).
StreamCatch(r, name) ==
  /\ messages' =
       handleApiResponse(fallback(messages, IsCurrent(requests[r]),
                                  uuid("error", r), StreamError),
                         SorryError, TRUE)
  /\ loading' = IF IsCurrent(requests[r])
                THEN [loading EXCEPT ![requests[r].inst] = FALSE]
                ELSE loading
  /\ requests' = [requests EXCEPT ![r].pc = "failed", ![r].onError = @ + 1]
  /\ lastOp' = ApiOp(name, r)
  /\ UNCHANGED <<groupVars, requestIdRef, abortRef, threadId>>

\* The fetch resolves with an ok response that has a body.
ApiFetchOk(r, w) ==
  /\ requests[r].pc = "fetch"
  /\ ~requests[r].aborted
  /\ requests' = [requests EXCEPT ![r].pc = "read", ![r].wire = w]
  /\ lastOp' = ApiOp("apiFetchOk", r)
  /\ UNCHANGED <<groupVars, requestIdRef, loading, abortRef, threadId,
                 messages>>

\* A failed fetch of the streaming path that would be issued again.
ApiFetchFailRetrying(r) ==
  /\ requests[r].pc = "fetch"
  /\ requests[r].attempt < maxRetries
  /\ requests' = [requests EXCEPT ![r].attempt = @ + 1]
  /\ lastOp' = ApiOp("apiFetchFail", r)
  /\ UNCHANGED <<groupVars, requestIdRef, loading, abortRef, threadId,
                 messages>>

\* The fetch rejects (abort included), the status is not ok or there is no
\* reader.
ApiFetchFail(r) ==
  /\ requests[r].pc = "fetch"
  /\ StreamCatch(r, "apiFetchFail")

\* reader.read() resolved with a chunk and the request is current; a is what
\* the loop body does with it.
ApiReadChunkApply(r, k, a) ==
  /\ messages' = a.messages
  /\ requests' = [requests EXCEPT
                    ![r].pos = @ + k,
                    ![r].buffer = a.buffer,
                    ![r].cands = @ \o a.cands,
                    ![r].nodes = @ \o a.nodes,
                    ![r].deltas = @ \o a.deltas]

\* reader.read() resolves with a chunk: a stale request leaves the loop and,
\* as the test after the loop fails too, ends without a trace.
ApiReadChunk(r, k) ==
  /\ requests[r].pc = "read"
  /\ ~requests[r].aborted
  /\ requests[r].pos + k <= Len(requests[r].wire)
  /\ IF loopBreaks(FALSE, requestIdRef[requests[r].inst],
                   requests[r].myRequestId)
     THEN /\ requests' = [requests EXCEPT ![r].pc = "done", ![r].pos = @ + k]
          /\ messages' = messages
     ELSE ApiReadChunkApply(r, k,
            processLines(messages, requests[r].buffer,
                         NextChunk(requests[r], k), uuid("assistant", r)))
  /\ lastOp' = ApiOp("apiReadChunk", r)
  /\ UNCHANGED <<groupVars, requestIdRef, loading, abortRef, threadId>>

\* reader.read() resolves with done: if the request is current, loading is
\* reset and onSuccess("Workflow completed") is called (ChatArea's onSuccess
\* leaves the list alone for the provisioning pattern).
ApiReadDone(r) ==
  /\ requests[r].pc = "read"
  /\ ~requests[r].aborted
  /\ requests[r].pos = Len(requests[r].wire)
  /\ loading' = IF IsCurrent(requests[r])
                THEN [loading EXCEPT ![requests[r].inst] = FALSE]
                ELSE loading
  /\ requests' = [requests EXCEPT
                    ![r].pc = "done",
                    ![r].onSuccess =
                      IF IsCurrent(requests[r]) THEN @ + 1 ELSE @]
  /\ lastOp' = ApiOp("apiReadDone", r)
  /\ UNCHANGED <<groupVars, requestIdRef, abortRef, threadId, messages>>

\* reader.read() rejects (abort included).
ApiReadFail(r) ==
  /\ requests[r].pc = "read"
  /\ StreamCatch(r, "apiReadFail")

\* The error that the attempt's axios.post rejects with.
AttemptError(attempt) == "Network Error #" \o ToString(attempt)

\* A finally block that would reset loading for a superseded request too.
FinallyAlways(r) == loading' = [loading EXCEPT ![requests[r].inst] = FALSE]

\* finally { if (requestIdRef.current === myRequestId) setLoading(false) }
Finally(r) ==
  loading' = IF IsCurrent(requests[r])
             THEN [loading EXCEPT ![requests[r].inst] = FALSE]
             ELSE loading

\* The call (its last attempt, under withRetry) resolves with responseText.
\* sendMessageWithCallback: the answer is appended if the request is
\* current, then onSuccess, which for ChatArea calls handleApiResponse.
\* sendMessage: the text is returned.
HttpOk(r, responseText) ==
  /\ requests[r].pc = "http"
  /\ ~requests[r].aborted
  /\ IF requests[r].kind = "http"
     THEN /\ messages' =
               handleApiResponse(answer(messages, IsCurrent(requests[r]),
                                        uuid("answer", r), responseText),
                                 responseText, FALSE)
          /\ requests' = [requests EXCEPT ![r].pc = "done",
                                          ![r].onSuccess = @ + 1,
                                          ![r].result = responseText]
     ELSE /\ messages' = messages
          /\ requests' = [requests EXCEPT ![r].pc = "done",
                                          ![r].result = responseText]
  /\ Finally(r)
  /\ lastOp' = ApiOp("httpOk", r)
  /\ UNCHANGED <<groupVars, requestIdRef, abortRef, threadId>>

\* A failed attempt that would be retried without telling the observer.
HttpRetryUnobserved(r) ==
  /\ requests[r].pc = "http"
  /\ retries(requests[r].pattern, requests[r].attempt)
  /\ messages' = messages
  /\ requests' = [requests EXCEPT
                    ![r].pc = "backoff",
                    ![r].delays = Append(@, retryDelay(requests[r].attempt))]
  /\ lastOp' = ApiOp("httpRetry", r)
  /\ UNCHANGED <<groupVars, requestIdRef, loading, abortRef, threadId>>

\* An attempt fails (abort included) and withRetry has attempts left: the
\* observer is called with the delay, and the delay starts.
\* sendMessageWithCallback passes onRetryAttempt, sendMessage no observer.
HttpRetry(r) ==
  /\ requests[r].pc = "http"
  /\ retries(requests[r].pattern, requests[r].attempt)
  /\ messages' = IF requests[r].kind = "http"
                 THEN onRetryAttempt(messages, requests[r].attempt, maxRetries)
                 ELSE messages
  /\ requests' = [requests EXCEPT
                    ![r].pc = "backoff",
                    ![r].onRetry = IF requests[r].kind = "http"
                                   THEN @ + 1 ELSE @,
                    ![r].delays = Append(@, retryDelay(requests[r].attempt))]
  /\ lastOp' = ApiOp("httpRetry", r)
  /\ UNCHANGED <<groupVars, requestIdRef, loading, abortRef, threadId>>

\* The delay is over: the next attempt starts.
RetryWake(r) ==
  /\ requests[r].pc = "backoff"
  /\ requests' = [requests EXCEPT ![r].pc = "http", ![r].attempt = @ + 1]
  /\ lastOp' = ApiOp("retryWake", r)
  /\ UNCHANGED <<groupVars, requestIdRef, loading, abortRef, threadId,
                 messages>>

\* The last attempt fails (abort included).  sendMessageWithCallback: the
\* fallback is appended if the request is current, then onError, which for
\* ChatArea calls handleApiResponse.  sendMessage: the error is thrown on.
HttpFail(r) ==
  /\ requests[r].pc = "http"
  /\ ~retries(requests[r].pattern, requests[r].attempt)
  /\ IF requests[r].kind = "http"
     THEN /\ messages' =
               handleApiResponse(fallback(messages, IsCurrent(requests[r]),
                                          uuid("error", r), SorryError),
                                 SorryError, TRUE)
          /\ requests' = [requests EXCEPT
                            ![r].pc = "failed",
                            ![r].onError = @ + 1,
                            ![r].result = AttemptError(requests[r].attempt)]
     ELSE /\ messages' = messages
          /\ requests' = [requests EXCEPT
                            ![r].pc = "failed",
                            ![r].result = AttemptError(requests[r].attempt)]
  /\ Finally(r)
  /\ lastOp' = ApiOp("httpFail", r)
  /\ UNCHANGED <<groupVars, requestIdRef, abortRef, threadId>>

\* A cancel that would abort the controller but leave the counter alone.
CancelKeepingRequestId(inst) ==
  /\ requestIdRef[inst] < MaxRequestId
  /\ requests' = IF abortRef[inst] # 0 /\ Pending(requests[abortRef[inst]])
                 THEN [requests EXCEPT ![abortRef[inst]].aborted = TRUE]
                 ELSE requests
  /\ loading' = [loading EXCEPT ![inst] = FALSE]
  /\ lastOp' = Op("cancel", 0)
  /\ UNCHANGED <<groupVars, requestIdRef, abortRef, threadId, messages>>

\* cancel(): the controller in abortRef is aborted (which a settled request
\* does not notice), the counter moves on, loading is reset.
Cancel(inst) ==
  /\ requestIdRef[inst] < MaxRequestId
  /\ requests' = IF abortRef[inst] # 0 /\ Pending(requests[abortRef[inst]])
                 THEN [requests EXCEPT ![abortRef[inst]].aborted = TRUE]
                 ELSE requests
  /\ requestIdRef' = [requestIdRef EXCEPT ![inst] = @ + 1]
  /\ loading' = [loading EXCEPT ![inst] = FALSE]
  /\ lastOp' = Op("cancel", 0)
  /\ UNCHANGED <<groupVars, abortRef, threadId, messages>>

\* A resetWebSocket that would start the counter again from zero.
ResetWebSocketRestarting(inst) ==
  /\ requestIdRef[inst] < MaxRequestId
  /\ threadId' = 0
  /\ requestIdRef' = [requestIdRef EXCEPT ![inst] = 0]
  /\ lastOp' = Op("resetWebSocket", 0)
  /\ UNCHANGED <<groupVars, loading, abortRef, messages, requests>>

\* resetWebSocket(): the stored thread id is removed, the counter moves on
\* (wsRef is never assigned, so there is no socket to close).
ResetWebSocket(inst) ==
  /\ requestIdRef[inst] < MaxRequestId
  /\ threadId' = 0
  /\ requestIdRef' = [requestIdRef EXCEPT ![inst] = @ + 1]
  /\ lastOp' = Op("resetWebSocket", 0)
  /\ UNCHANGED <<groupVars, loading, abortRef, messages, requests>>

\* App.handleClearConversation: the list is emptied, App's own useAgentAPI
\* instance is reset if the selected pattern is provisioning, the group
\* store is reset.  cleared is history.
HandleClearConversation(selectedPattern) ==
  /\ requestIdRef["App"] < MaxClears
  /\ messages' = <<>>
  /\ threadId' = IF selectedPattern = PROVISIONING THEN 0 ELSE threadId
  /\ requestIdRef' =
       IF selectedPattern = PROVISIONING
       THEN [requestIdRef EXCEPT !["App"] = @ + 1]
       ELSE requestIdRef
  /\ store' = reset(store)
  /\ streams' = Disturbed(streams)
  /\ requests' =
       [r \in 1..Len(requests) |->
          [requests[r] EXCEPT
             !.cleared = @ \/ (selectedPattern = PROVISIONING
                                 /\ Pending(requests[r]))]]
  /\ lastOp' = Op("handleClearConversation", 0)
  /\ UNCHANGED <<loading, abortRef>>

(***************************************************************************)
(* Specifications                                                          *)
(***************************************************************************)

\* The group store under overlapping calls and resets.
Next ==
  \/ Len(streams) < MaxStreams /\ StartStreaming
  \/ \E i \in 1..Len(streams) : \E w \in GroupWires : FetchOk(i, w)
  \/ \E i \in 1..Len(streams) : \E message \in FetchErrors :
       FetchFail(i, message)
  \/ \E i \in 1..Len(streams) :
       \E k \in 1..(Len(streams[i].wire) - streams[i].pos) : ReadChunk(i, k)
  \/ \E i \in 1..Len(streams) : ReadDone(i)
  \/ \E i \in 1..Len(streams) : ReadFail(i)
  \/ Reset

Spec == Init /\ [][Next]_vars

\* The transport of call i settles: the fetch resolves or rejects, the
\* stream closes (read resolves with done) or fails (read rejects).
Settles(i) ==
  /\ i <= Len(streams)
  /\ \/ \E w \in GroupWires : FetchOk(i, w)
     \/ \E message \in FetchErrors : FetchFail(i, message)
     \/ ReadDone(i)
     \/ ReadFail(i)

\* The calls of startStreaming alone, overlapping or not, with no reset() by
\* the application in between.
NextCalls ==
  \/ Len(streams) < MaxStreams /\ StartStreaming
  \/ \E i \in 1..Len(streams) : \E w \in GroupWires : FetchOk(i, w)
  \/ \E i \in 1..Len(streams) : \E message \in FetchErrors :
       FetchFail(i, message)
  \/ \E i \in 1..Len(streams) :
       \E k \in 1..(Len(streams[i].wire) - streams[i].pos) : ReadChunk(i, k)
  \/ \E i \in 1..Len(streams) : ReadDone(i)
  \/ \E i \in 1..Len(streams) : ReadFail(i)

\* These calls on a transport that does not stall for ever: every pending
\* fetch settles and every open stream closes or fails in the end, after
\* the chunks it delivers.
SpecFair ==
  Init /\ [][NextCalls]_vars /\ \A i \in 1..MaxStreams : WF_vars(Settles(i))

\* Calls of startStreaming made one after the other, on texts with and
\* without a final response.
NextSerial ==
  \/ Len(streams) < MaxStreams
       /\ (\A i \in 1..Len(streams) : ~InFlight(streams[i]))
       /\ StartStreaming
  \/ \E i \in 1..Len(streams) : \E w \in FinalWires : FetchOk(i, w)
  \/ \E i \in 1..Len(streams) : \E message \in FetchErrors :
       FetchFail(i, message)
  \/ \E i \in 1..Len(streams) :
       \E k \in 1..(Len(streams[i].wire) - streams[i].pos) : ReadChunk(i, k)
  \/ \E i \in 1..Len(streams) : ReadDone(i)
  \/ \E i \in 1..Len(streams) : ReadFail(i)

SpecSerial == Init /\ [][NextSerial]_vars

\* Calls of startStreaming made one after the other, on texts that are cut
\* inside a frame or hold frames that are rejected.
NextDropped ==
  \/ Len(streams) < MaxStreams
       /\ (\A i \in 1..Len(streams) : ~InFlight(streams[i]))
       /\ StartStreaming
  \/ \E i \in 1..Len(streams) : \E w \in DroppedWires : FetchOk(i, w)
  \/ \E i \in 1..Len(streams) : \E message \in FetchErrors :
       FetchFail(i, message)
  \/ \E i \in 1..Len(streams) :
       \E k \in 1..(Len(streams[i].wire) - streams[i].pos) : ReadChunk(i, k)
  \/ \E i \in 1..Len(streams) : ReadDone(i)
  \/ \E i \in 1..Len(streams) : ReadFail(i)

SpecDropped == Init /\ [][NextDropped]_vars

\* Text that a transport may put before an object: blanks, or a field name.
NoiseBlank == <<"\n", " ">>

NoiseData ==
  <<"d", "a", "t", "a", ":", " ">>

\* Frames whose response opens with a brace or a blank but with neither
\* sentinel.
FrPlainBrace ==
  <<"{", "\"", "r", "e", "s", "p", "o", "n", "s", "e", "\"", ":", "\"", "{",
    "o", "k", "}", "\"", "}">>

FrSpacedDict ==
  <<"{", "\"", "r", "e", "s", "p", "o", "n", "s", "e", "\"", ":", "\"", " ",
    "{", "'", "o", "r", "d", "e", "r", "_", "i", "d", "'", ":", "'", "7",
    "'", "}", "\"", "}">>

\* Frames whose response opens with the sentinel {": an object that lacks
\* required fields, and an event.
FrQuotedDict ==
  <<"{", "\"", "r", "e", "s", "p", "o", "n", "s", "e", "\"", ":", "\"", "{",
    "\\", "\"", "o", "r", "d", "e", "r", "_", "i", "d", "\\", "\"", ":",
    "\\", "\"", "7", "\\", "\"", "}", "\"", "}">>

FrQuotedEvent_a ==
  <<"{", "\"", "r", "e", "s", "p", "o", "n", "s", "e", "\"", ":", "\"", "{",
    "\\", "\"", "o", "r", "d", "e", "r", "_", "i", "d", "\\", "\"", ":",
    "\\", "\"", "9", "\\", "\"", ",", "\\", "\"", "s", "e", "n", "d", "e",
    "r", "\\", "\"", ":", "\\", "\"", "A", "\\", "\"", ",", "\\", "\"", "r",
    "e", "c", "e", "i", "v", "e", "r", "\\", "\"", ":", "\\", "\"", "B",
    "\\", "\"", ",">>

FrQuotedEvent_b ==
  <<"\\", "\"", "m", "e", "s", "s", "a", "g", "e", "\\", "\"", ":", "\\",
    "\"", "m", "\\", "\"", ",", "\\", "\"", "t", "i", "m", "e", "s", "t",
    "a", "m", "p", "\\", "\"", ":", "\\", "\"", "t", "\\", "\"", ",", "\\",
    "\"", "s", "t", "a", "t", "e", "\\", "\"", ":", "\\", "\"", "S", "E",
    "N", "T", "\\", "\"", "}", "\"", "}">>

\* Texts with objects that follow other text, and with responses of every
\* opening.
FramingWires ==
  { <<NoiseBlank \o EvSent_a \o EvSent_b,
      NoiseData \o EvSent_a \o EvSent_b \o FrFinal>>,
    <<FrBadDict \o FrQuotedDict, FrPlainBrace \o EvSent_a \o EvSent_b>>,
    <<FrQuotedEvent_a, FrQuotedEvent_b \o FrInvalid>>,
    <<FrInvalid \o FrSpacedDict, EvSent_a \o EvSent_b>> }

\* Calls of startStreaming made one after the other on these texts.
NextFraming ==
  \/ Len(streams) < MaxStreams
       /\ (\A i \in 1..Len(streams) : ~InFlight(streams[i]))
       /\ StartStreaming
  \/ \E i \in 1..Len(streams) : \E w \in FramingWires : FetchOk(i, w)
  \/ \E i \in 1..Len(streams) : \E message \in FetchErrors :
       FetchFail(i, message)
  \/ \E i \in 1..Len(streams) :
       \E k \in 1..(Len(streams[i].wire) - streams[i].pos) : ReadChunk(i, k)
  \/ \E i \in 1..Len(streams) : ReadDone(i)
  \/ \E i \in 1..Len(streams) : ReadFail(i)

SpecFraming == Init /\ [][NextFraming]_vars

\* The response texts of the retried endpoint.
RetryResponses == {"pong", "ack"}

\* The text of the one stream of the retry specification.
RetryWire == <<LnA, LnNode>>

\* No request is waiting for its call, unless it was cancelled.
NoneActive == \A r \in 1..Len(requests) :
                ~Pending(requests[r]) \/ requests[r].aborted

\* Calls made one after the other, or after a cancel: every pattern, with
\* and without callbacks, every outcome of every attempt; or one call of
\* startStreaming.
NextRetry ==
  \/ Len(requests) < MaxRequests /\ NoneActive /\ streams = <<>>
       /\ \E pattern \in Patterns : SendMessageWithCallback("ChatArea", pattern)
  \/ Len(requests) < MaxRequests /\ NoneActive /\ streams = <<>>
       /\ \E pattern \in Patterns : SendMessage("ChatArea", pattern)
  \/ \E r \in 1..Len(requests) : ApiFetchOk(r, RetryWire)
  \/ \E r \in 1..Len(requests) : ApiFetchFail(r)
  \/ \E r \in 1..Len(requests) :
       \E k \in 1..(Len(requests[r].wire) - requests[r].pos) :
         ApiReadChunk(r, k)
  \/ \E r \in 1..Len(requests) : ApiReadDone(r)
  \/ \E r \in 1..Len(requests) : ApiReadFail(r)
  \/ \E r \in 1..Len(requests) : \E responseText \in RetryResponses :
       HttpOk(r, responseText)
  \/ \E r \in 1..Len(requests) : HttpRetry(r)
  \/ \E r \in 1..Len(requests) : RetryWake(r)
  \/ \E r \in 1..Len(requests) : HttpFail(r)
  \/ (\E r \in 1..Len(requests) : Pending(requests[r])) /\ Cancel("ChatArea")
  \/ streams = <<>> /\ requests = <<>> /\ StartStreaming
  \/ \E i \in 1..Len(streams) : FetchOk(i, <<EvSent_a, EvSent_b>>)
  \/ \E i \in 1..Len(streams) : \E message \in FetchErrors :
       FetchFail(i, message)
  \/ \E i \in 1..Len(streams) :
       \E k \in 1..(Len(streams[i].wire) - streams[i].pos) : ReadChunk(i, k)
  \/ \E i \in 1..Len(streams) : ReadDone(i)
  \/ \E i \in 1..Len(streams) : ReadFail(i)

SpecRetry == Init /\ [][NextRetry]_vars

\* ChatArea's own loading state: processMessageWithQuery sets it before it
\* awaits sendMessageWithCallback and resets it when the call has settled.
ChatAreaLoading ==
  \E r \in 1..Len(requests) :
    requests[r].inst = "ChatArea" /\ Pending(requests[r])

\* The flag App gives ChatArea: set while the selected pattern is group
\* communication.
showProgressTracker(selectedPattern) == selectedPattern = "group_communication"

\* Submissions from ChatArea's input under one selected pattern: the send
\* button and the Enter key call processMessage if loading is not set (and
\* the input is not blank); processMessage hands the query to
\* App.handleDropdownSelect if the progress tracker is shown, and to
\* processMessageWithQuery otherwise.
NextTurn ==
  \/ Len(requests) < MaxRequests /\ streams = <<>> /\ ~ChatAreaLoading
       /\ \E pattern \in Patterns :
            /\ ~showProgressTracker(pattern)
            /\ SendMessageWithCallback("ChatArea", pattern)
  \/ Len(streams) < MaxStreams /\ requests = <<>> /\ ~ChatAreaLoading
       /\ showProgressTracker("group_communication")
       /\ StartStreaming
  \/ \E r \in 1..Len(requests) : ApiFetchOk(r, RetryWire)
  \/ \E r \in 1..Len(requests) : ApiFetchFail(r)
  \/ \E r \in 1..Len(requests) :
       \E k \in 1..(Len(requests[r].wire) - requests[r].pos) :
         ApiReadChunk(r, k)
  \/ \E r \in 1..Len(requests) : ApiReadDone(r)
  \/ \E r \in 1..Len(requests) : ApiReadFail(r)
  \/ \E r \in 1..Len(requests) : \E responseText \in Responses :
       HttpOk(r, responseText)
  \/ \E r \in 1..Len(requests) : HttpFail(r)
  \/ \E i \in 1..Len(streams) : \E w \in GroupWires : FetchOk(i, w)
  \/ \E i \in 1..Len(streams) : \E message \in FetchErrors :
       FetchFail(i, message)
  \/ \E i \in 1..Len(streams) :
       \E k \in 1..(Len(streams[i].wire) - streams[i].pos) : ReadChunk(i, k)
  \/ \E i \in 1..Len(streams) : ReadDone(i)
  \/ \E i \in 1..Len(streams) : ReadFail(i)

SpecTurn == Init /\ [][NextTurn]_vars

(***************************************************************************)
(* Literal-style event strings, as the agent prints a dict                 *)
(***************************************************************************)

\* The required fields as they stand in a literal, in the order of
\* requiredStringFields.
FieldChars ==
  <<
  <<"o", "r", "d", "e", "r", "_", "i", "d">>,
  <<"s", "e", "n", "d", "e", "r">>,
  <<"r", "e", "c", "e", "i", "v", "e", "r">>,
  <<"m", "e", "s", "s", "a", "g", "e">>,
  <<"t", "i", "m", "e", "s", "t", "a", "m", "p">>,
  <<"s", "t", "a", "t", "e">>
  >>

\* A field of a literal: a single-quoted string, a bare token, or absent.
LitString(s) == [kind |-> "string", s |-> s]

LitToken(s) == [kind |-> "token", s |-> s]

LitAbsent == [kind |-> "absent", s |-> <<>>]

\* An event whose six fields are non-blank strings.
BaseFields ==
  <<LitString(<<"7">>), LitString(<<"A">>), LitString(<<"B">>),
    LitString(<<"m">>), LitString(<<"t">>),
    LitString(<<"S", "E", "N", "T">>)>>

\* What a field may be changed to.
FieldVariants ==
  { LitString(<<"h", "i">>),
    LitString(<<"N", "o", "n", "e">>),
    LitString(<<"T", "r", "u", "e">>),
    LitString(<<"F", "a", "l", "s", "e", " ", "a", "l", "a", "r", "m">>),
    LitString(<<" ">>),
    LitString(<<>>),
    LitToken(<<"N", "o", "n", "e">>),
    LitToken(<<"T", "r", "u", "e">>),
    LitToken(<<"F", "a", "l", "s", "e">>),
    LitToken(<<"7">>),
    LitAbsent }

\* The fields that are changed: order_id, message, state.
VariedFields == {1, 4, 6}

LiteralInputs ==
  {[BaseFields EXCEPT ![k] = v] : k \in VariedFields, v \in FieldVariants}

\* 'key': value of the field i, or nothing when it is absent.
LitMember(fields, i) ==
  IF fields[i].kind = "absent" THEN <<>>
  ELSE <<"'">> \o FieldChars[i] \o <<"'", ":", " ">>
         \o (IF fields[i].kind = "string"
             THEN <<"'">> \o fields[i].s \o <<"'">>
             ELSE fields[i].s)

\* The members from the field i on, separated by ", ".
RECURSIVE LitMembers(_, _, _)
LitMembers(fields, i, first) ==
  IF i > Len(fields) THEN <<>>
  ELSE IF fields[i].kind = "absent" THEN LitMembers(fields, i + 1, first)
  ELSE (IF first THEN <<>> ELSE <<",", " ">>)
         \o LitMember(fields, i) \o LitMembers(fields, i + 1, FALSE)

\* The literal-style string of an event.
Literal(fields) == <<"{">> \o LitMembers(fields, 1, TRUE) \o <<"}">>

\* The frame that carries a response text free of '"' and '\'.
ResponseFrame(response) ==
  <<"{", "\"", "r", "e", "s", "p", "o", "n", "s", "e", "\"", ":", " ",
    "\"">>
    \o response \o <<"\"", "}">>

\* Where the transport cuts the frame of a literal.
LiteralCut == 20

\* The text of one literal event, delivered in two pieces.
LiteralWire(fields) ==
  LET t == ResponseFrame(Literal(fields)) IN
  <<SubSeq(t, 1, LiteralCut), SubSeq(t, LiteralCut + 1, Len(t))>>

LiteralWires == {LiteralWire(fields) : fields \in LiteralInputs}

\* One call of startStreaming on the text of one literal event.
NextLiteral ==
  \/ streams = <<>> /\ StartStreaming
  \/ \E i \in 1..Len(streams) : \E w \in LiteralWires : FetchOk(i, w)
  \/ \E i \in 1..Len(streams) : \E message \in FetchErrors :
       FetchFail(i, message)
  \/ \E i \in 1..Len(streams) :
       \E k \in 1..(Len(streams[i].wire) - streams[i].pos) : ReadChunk(i, k)
  \/ \E i \in 1..Len(streams) : ReadDone(i)
  \/ \E i \in 1..Len(streams) : ReadFail(i)

SpecLiteral == Init /\ [][NextLiteral]_vars

\* One call of either reader (startStreaming, or the streaming path of
\* sendMessageWithCallback), every text of its library, cut anywhere.
NextExtract ==
  \/ streams = <<>> /\ requests = <<>> /\ StartStreaming
  \/ \E i \in 1..Len(streams) : \E w \in ExtractWires : FetchOk(i, w)
  \/ \E i \in 1..Len(streams) : \E message \in FetchErrors :
       FetchFail(i, message)
  \/ \E i \in 1..Len(streams) :
       \E k \in 1..(Len(streams[i].wire) - streams[i].pos) : ReadChunk(i, k)
  \/ \E i \in 1..Len(streams) : ReadDone(i)
  \/ \E i \in 1..Len(streams) : ReadFail(i)
  \/ Reset
  \/ streams = <<>> /\ requests = <<>>
       /\ SendMessageWithCallback("ChatArea", PROVISIONING)
  \/ \E r \in 1..Len(requests) : \E w \in LineWires : ApiFetchOk(r, w)
  \/ \E r \in 1..Len(requests) : ApiFetchFail(r)
  \/ \E r \in 1..Len(requests) :
       \E k \in 1..(Len(requests[r].wire) - requests[r].pos) :
         ApiReadChunk(r, k)
  \/ \E r \in 1..Len(requests) : ApiReadDone(r)
  \/ \E r \in 1..Len(requests) : ApiReadFail(r)

SpecExtract == Init /\ [][NextExtract]_vars

\* The useAgentAPI instances of App and ChatArea under overlapping requests,
\* cancel, resetWebSocket and the clearing of the conversation.
NextApi ==
  \/ Len(requests) < MaxRequests
       /\ \E pattern \in Patterns : SendMessageWithCallback("ChatArea", pattern)
  \/ Len(requests) < MaxRequests
       /\ \E pattern \in Patterns : SendMessage("ChatArea", pattern)
  \/ \E r \in 1..Len(requests) : \E w \in ApiWires : ApiFetchOk(r, w)
  \/ \E r \in 1..Len(requests) : ApiFetchFail(r)
  \/ \E r \in 1..Len(requests) :
       \E k \in 1..(Len(requests[r].wire) - requests[r].pos) :
         ApiReadChunk(r, k)
  \/ \E r \in 1..Len(requests) : ApiReadDone(r)
  \/ \E r \in 1..Len(requests) : ApiReadFail(r)
  \/ \E r \in 1..Len(requests) : \E responseText \in Responses :
       HttpOk(r, responseText)
  \/ \E r \in 1..Len(requests) : HttpRetry(r)
  \/ \E r \in 1..Len(requests) : RetryWake(r)
  \/ \E r \in 1..Len(requests) : HttpFail(r)
  \/ Cancel("ChatArea")
  \/ ResetWebSocket("ChatArea")
  \/ \E selectedPattern \in Patterns : HandleClearConversation(selectedPattern)

SpecApi == Init /\ [][NextApi]_vars

\* The patterns whose non-streaming call is made once.
NoRetry == {pattern \in Patterns : ~shouldEnableRetries(pattern)}

\* Streaming requests of one useAgentAPI instance overtaken by further calls
\* of sendMessageWithCallback and sendMessage, by cancel and by
\* resetWebSocket (no retried call, no clearing of the conversation).
NextStale ==
  \/ Len(requests) < MaxRequests
       /\ \E pattern \in NoRetry : SendMessageWithCallback("ChatArea", pattern)
  \/ Len(requests) < MaxRequests
       /\ \E pattern \in NoRetry : SendMessage("ChatArea", pattern)
  \/ \E r \in 1..Len(requests) : \E w \in ApiWires : ApiFetchOk(r, w)
  \/ \E r \in 1..Len(requests) : ApiFetchFail(r)
  \/ \E r \in 1..Len(requests) :
       \E k \in 1..(Len(requests[r].wire) - requests[r].pos) :
         ApiReadChunk(r, k)
  \/ \E r \in 1..Len(requests) : ApiReadDone(r)
  \/ \E r \in 1..Len(requests) : ApiReadFail(r)
  \/ \E r \in 1..Len(requests) : \E responseText \in Responses :
       HttpOk(r, responseText)
  \/ \E r \in 1..Len(requests) : HttpFail(r)
  \/ Cancel("ChatArea")
  \/ ResetWebSocket("ChatArea")

SpecStale == Init /\ [][NextStale]_vars

(***************************************************************************)
(* Properties                                                              *)
(***************************************************************************)

\* The steps a startStreaming call takes after its first stretch.
StreamOps == {"fetchOk", "fetchFail", "readChunk", "readDone", "readFail"}

\* The fields of the store that its consumers read.
View(st) ==
  <<st.events, st.finalResponse, st.error, st.currentOrderId, st.isStreaming,
    st.isComplete>>

EventState(e) == Str(Get(e, "state").s)
EventOrderId(e) == Str(Get(e, "order_id").s)

\* C1: once a later startStreaming call has begun, no step of an earlier
\* call's stream (event, final response, end of stream, failure) changes the
\* store.
C1_StaleStreamSilent ==
  [][(lastOp'.op \in StreamOps /\ lastOp'.id < Len(streams))
       => View(store') = View(store)]_vars

\* C2: a chunk read by a streaming request whose id requestIdRef has moved
\* past (after cancel() or a newer call) leaves the message list as it is and
\* calls no onNodeHighlight.
C2_StaleChunkDropped ==
  [][\A r \in 1..Len(requests) :
       (lastOp'.op = "apiReadChunk" /\ lastOp'.id = r
          /\ ~IsCurrent(requests[r]))
         => /\ messages' = messages
            /\ requests'[r].nodes = requests[r].nodes]_vars

\* C2 witness: a superseded request has just read its first chunk, which
\* holds a complete line with a token, after the newer request had tokens
\* applied.
C2_Witness ==
  /\ lastOp.op = "apiReadChunk"
  /\ lastOp.stale
  /\ requests[lastOp.id].pos >= 1
  /\ requests[lastOp.id].deltas = <<>>
  /\ \E q \in (lastOp.id + 1)..Len(requests) : requests[q].deltas # <<>>

\* The steps in which a sendMessageWithCallback request succeeds, fails or
\* has an attempt retried.
OutcomeOps ==
  {"apiReadDone", "apiFetchFail", "apiReadFail", "httpOk", "httpFail",
   "httpRetry"}

\* C3: the success or failure of a sendMessageWithCallback request that is
\* no longer current changes neither the message list nor loading and calls
\* none of onSuccess, onError and the retry observer.
C3_StaleOutcomeDropped ==
  [][\A r \in 1..Len(requests) :
       (lastOp'.op \in OutcomeOps /\ lastOp'.id = r
          /\ requests[r].kind # "send" /\ ~IsCurrent(requests[r]))
         => /\ messages' = messages
            /\ loading' = loading
            /\ requests'[r].onSuccess = requests[r].onSuccess
            /\ requests'[r].onError = requests[r].onError
            /\ requests'[r].onRetry = requests[r].onRetry]_vars

\* C4: in a call that runs alone, a DELIVERED event is the last event of the
\* log, and once it is in the log the store is Complete.
C4_DeliveredIsLast ==
  (\E i \in 1..Len(streams) : streams[i].undisturbed)
    => \A j \in 1..Len(store.events) :
         EventState(store.events[j]) = DELIVERED
           => /\ j = Len(store.events)
              /\ store.isComplete
              /\ ~store.isStreaming

\* A text is a sequence of JSON objects, separated by white space or not.
RECURSIVE ValidConcatFrom(_, _)
ValidConcatStep(t, r) == r.ok /\ r.v.t = "object" /\ ValidConcatFrom(t, r.p)
ValidConcatFrom(t, i) ==
  SkipWs(t, i) > Len(t) \/ ValidConcatStep(t, PValue(t, SkipWs(t, i)))
ValidConcat(t) == ValidConcatFrom(t, 1)

\* The candidates the loop extracts from a text read as one chunk.
ExtractAll(text) == processChunk(initialState, <<>>, text).cands

\* C5: whatever the cuts, the candidates a call has extracted from a valid
\* concatenated-JSON text are those extracted from its unsplit text: at
\* every read those of the text read so far, and at the end (all read, or
\* returned on a final response) those of the whole text.
C5_ChunkInvariance ==
  \A i \in 1..Len(streams) :
    ValidConcat(Flatten(streams[i].wire))
      => /\ streams[i].cands = ExtractAll(Delivered(streams[i]))
         /\ (streams[i].pc = "returned"
               \/ streams[i].pos = Len(streams[i].wire))
              => streams[i].cands = ExtractAll(Flatten(streams[i].wire))

\* C5 witness: a valid text, cut inside its second object after the first
\* was extracted.
C5_Witness ==
  \E i \in 1..Len(streams) :
    /\ ValidConcat(Flatten(streams[i].wire))
    /\ Len(streams[i].wire) > 3
    /\ streams[i].reads >= 2
    /\ Len(streams[i].cands) >= 1
    /\ streams[i].buffer # <<>>
    /\ streams[i].buffer[1] = "{"

\* The lines of a list, each with its newline, as one text.
RECURSIVE JoinLines(_)
JoinLines(lines) ==
  IF lines = <<>> THEN <<>>
  ELSE Head(lines) \o <<"\n">> \o JoinLines(Tail(lines))

\* The tokens that the lines of a list make the line loop apply.
LineDeltas(lines) == processLines(<<>>, <<>>, JoinLines(lines), "m").deltas

\* The events that a candidate makes the brace loop append.
FrameEvents(jsonStr) == handleFrame(initialState, jsonStr).store.events

RECURSIVE Joined(_)
Joined(texts) ==
  IF texts = <<>> THEN "" ELSE Head(texts) \o Joined(Tail(texts))

\* The brace loop has taken only text that ends with a '}' at depth zero and
\* that the reads have delivered, and every event of the store comes from
\* such a candidate.
BraceLoopWaits(s) ==
  /\ IsPrefix(Flatten(s.cands), Delivered(s))
  /\ \A j \in 1..Len(s.cands) :
       /\ s.cands[j][Len(s.cands[j])] = "}"
       /\ braceCountAt(s.cands[j], Len(s.cands[j])) = 0
  /\ s.undisturbed
       => \A e \in 1..Len(store.events) :
            \E j \in 1..Len(s.cands) :
              FrameEvents(s.cands[j]) = <<store.events[e]>>

\* The line loop has taken only lines whose newline the reads have
\* delivered, and the request's assistant message holds the tokens of these
\* lines and nothing else.
LineLoopWaits(r) ==
  /\ IsPrefix(JoinLines(requests[r].cands), Delivered(requests[r]))
  /\ requests[r].deltas = LineDeltas(requests[r].cands)
  /\ \A m \in 1..Len(messages) :
       messages[m].id = uuid("assistant", r)
         => messages[m].content = Joined(requests[r].deltas)

\* C6: neither reader takes a value before its closing delimiter has been
\* read: a candidate of the brace loop ends with the '}' that brings the
\* depth back to zero, a line of the line loop is followed by its newline in
\* the text read, and the store and the message list hold nothing but what
\* these values carry.
C6_NoEarlyEmit ==
  /\ \A i \in 1..Len(streams) : BraceLoopWaits(streams[i])
  /\ \A r \in 1..Len(requests) : LineLoopWaits(r)

\* C6 witness: a token has been applied from a complete line while the
\* beginning of the next line waits in the buffer for its newline.
C6_Witness ==
  \E r \in 1..Len(requests) :
    /\ requests[r].deltas # <<>>
    /\ requests[r].buffer # <<>>
    /\ requests[r].buffer[1] = "{"
    /\ requests[r].pos < Len(requests[r].wire)

\* C7: the three fragments read one by one in a call that runs alone: no
\* event after the first and the second read, exactly one event (order_id
\* "1", state "DELIVERED") after the third, and once the stream has closed
\* the store is Complete with no error.
C7_EndToEnd ==
  \A i \in 1..Len(streams) :
    (streams[i].undisturbed /\ streams[i].wire = E2EWire
       /\ streams[i].reads = streams[i].pos)
      => /\ streams[i].pos \in {1, 2} => store.events = <<>>
         /\ streams[i].pos = 3
              => /\ Len(store.events) = 1
                 /\ EventOrderId(store.events[1]) = "1"
                 /\ EventState(store.events[1]) = "DELIVERED"
         /\ streams[i].pc = "closed"
              => /\ Len(store.events) = 1
                 /\ store.isComplete
                 /\ ~store.isStreaming
                 /\ store.error = NULL

\* C7 witness: the three fragments were read in three reads and the stream
\* has closed.
C7_Witness ==
  \E i \in 1..Len(streams) :
    /\ streams[i].undisturbed
    /\ streams[i].wire = E2EWire
    /\ streams[i].reads = 3
    /\ streams[i].pc = "closed"

\* C8: reset() called in Complete or in Error leaves the empty log, no final
\* response, no error, no current order id, and the status Idle.
C8_ResetClears ==
  (lastOp.op = "reset" /\ lastOp.was \in {"Complete", "Error"})
    => /\ store.events = <<>>
       /\ store.finalResponse = NULL
       /\ store.error = NULL
       /\ store.currentOrderId = NULL
       /\ ~store.isStreaming
       /\ ~store.isComplete

\* C8 witness: reset() has just been called on a Complete store after a
\* call had extracted a frame.
C8_Witness ==
  /\ lastOp.op = "reset"
  /\ lastOp.was = "Complete"
  /\ \E i \in 1..Len(streams) : Len(streams[i].cands) >= 1

\* The store is Idle with an empty log, no final response and no error.
IdleEmpty(st) ==
  /\ st.events = <<>>
  /\ st.finalResponse = NULL
  /\ st.error = NULL
  /\ ~st.isStreaming
  /\ ~st.isComplete

\* C9: an Idle, empty store stays so until the next startStreaming call,
\* whatever a stream still in flight delivers.
C9_IdleUntilNextStart ==
  [][(IdleEmpty(store) /\ lastOp'.op # "startStreaming")
       => IdleEmpty(store')]_vars

\* C10: a chunk read by a streaming request of ChatArea that was pending when
\* the conversation was cleared (with resetWebSocket called) is not applied
\* to the message list.
C10_ClearedChunkDropped ==
  [][\A r \in 1..Len(requests) :
       (lastOp'.op = "apiReadChunk" /\ lastOp'.id = r
          /\ requests[r].inst = "ChatArea" /\ requests[r].cleared)
         => messages' = messages]_vars

\* The requests issued through one useAgentAPI instance, in call order.
IssuedBy(inst) == {r \in 1..Len(requests) : requests[r].inst = inst}

\* The most recently issued request of an instance, 0 when there is none.
MostRecent(inst) ==
  IF IssuedBy(inst) = {} THEN 0
  ELSE CHOOSE r \in IssuedBy(inst) : \A q \in IssuedBy(inst) : q <= r

\* C11: cancel() aborts the controller of the most recently issued request
\* and moves requestIdRef on in the same step: right after it no request
\* issued before has an id equal to requestIdRef.current, and loading is
\* false.
C11_CancelMakesStale ==
  [][\A inst \in Inst :
       Cancel(inst)
         => /\ abortRef[inst] = MostRecent(inst)
            /\ (abortRef[inst] # 0 /\ Pending(requests[abortRef[inst]]))
                 => requests'[abortRef[inst]].aborted
            /\ requestIdRef'[inst] = requestIdRef[inst] + 1
            /\ \A r \in IssuedBy(inst) :
                 requests'[r].myRequestId # requestIdRef'[inst]
            /\ ~loading'[inst]]_vars

\* C11 witness: cancel() has just been called while the latest request,
\* current until then, was in flight.
C11_Witness ==
  /\ lastOp.op = "cancel"
  /\ \E r \in 1..Len(requests) :
       /\ r = MostRecent(requests[r].inst)
       /\ requests[r].aborted
       /\ Pending(requests[r])
       /\ requests[r].myRequestId + 1 = requestIdRef[requests[r].inst]
       /\ ~loading[requests[r].inst]

\* The ids of the requests in reqs issued through inst are all different.
UniqueIds(reqs, inst) ==
  \A r, q \in 1..Len(reqs) :
    (r # q /\ reqs[r].inst = inst /\ reqs[q].inst = inst)
      => reqs[r].myRequestId # reqs[q].myRequestId

\* The in-flight requests of reqs issued through inst whose id is current.
CurrentInFlight(reqs, inst, current) ==
  {r \in 1..Len(reqs) :
     reqs[r].inst = inst /\ Pending(reqs[r]) /\ reqs[r].myRequestId = current}

\* C12: on each useAgentAPI instance, under any sequence of sendMessage,
\* sendMessageWithCallback, cancel and resetWebSocket calls: requestIdRef
\* never decreases, a request issued gets the previous counter value plus
\* one, no two requests hold the same id, and at most one in-flight request
\* has the id requestIdRef.current.
C12_RequestIdsFresh ==
  [][\A inst \in Inst :
       /\ requestIdRef'[inst] >= requestIdRef[inst]
       /\ (Len(requests') = Len(requests) + 1
             /\ requests'[Len(requests')].inst = inst)
            => /\ requests'[Len(requests')].myRequestId
                    = requestIdRef[inst] + 1
               /\ requestIdRef'[inst] = requestIdRef[inst] + 1
       /\ UniqueIds(requests', inst)
       /\ Cardinality(CurrentInFlight(requests', inst, requestIdRef'[inst]))
            <= 1]_vars

\* C12 witness: two requests of one instance are in flight, the second
\* issued after resetWebSocket had moved the counter on.
C12_Witness ==
  /\ Len(requests) = 2
  /\ requests[1].inst = requests[2].inst
  /\ Pending(requests[1]) /\ Pending(requests[2])
  /\ ~requests[1].aborted
  /\ requests[1].myRequestId = 1
  /\ requests[2].myRequestId = 3
  /\ IsCurrent(requests[2])

\* C13: startStreaming called while the store is Streaming, Complete or in
\* Error changes none of events, finalResponse, error, currentOrderId and
\* the status.
C13_StartOnlyFromIdle ==
  [][(lastOp'.op = "startStreaming" /\ lastOp'.was # "Idle")
       => View(store') = View(store)]_vars

\* C14: every step that lengthens events is taken while the store is
\* Streaming (isStreaming true, isComplete false).
C14_GrowsOnlyWhileStreaming ==
  [][Len(store'.events) > Len(store.events)
       => (store.isStreaming /\ ~store.isComplete)]_vars

\* The events that candidates make the brace loop append, in their order.
RECURSIVE EventsOf(_)
EventsOf(cands) ==
  IF cands = <<>> THEN <<>>
  ELSE FrameEvents(Head(cands)) \o EventsOf(Tail(cands))

\* A candidate's outcome on its own: whether it carries a plain-text final
\* response, and the text.
FrameOutcome(jsonStr) == handleFrame(initialState, jsonStr)

\* The store holds the final response of the outcome r and is Complete.
HoldsFinal(st, r) ==
  /\ r.returned
  /\ st.finalResponse = r.store.finalResponse
  /\ st.isComplete
  /\ ~st.isStreaming

\* The call has taken a frame that carries a plain-text final response.
TookFinal(s) ==
  \E j \in 1..Len(s.cands) : FrameOutcome(s.cands[j]).returned

\* The call has returned on a final response: its last candidate is the
\* only one that carries one.
EndedOnFinal(s) ==
  /\ s.pc = "returned"
  /\ s.cands # <<>>
  /\ \A j \in 1..Len(s.cands) :
       FrameOutcome(s.cands[j]).returned <=> j = Len(s.cands)

\* C15: when a frame with a plain-text final response has been processed,
\* finalResponse holds the text and the store is Complete; the call has
\* returned, so no later frame of its stream, in the same chunk or in a
\* later one, is taken or appended to events.
C15_FinalResponseEndsStream ==
  [][\A i \in 1..Len(streams') :
       (TookFinal(streams'[i]) \/ streams'[i].pc = "returned")
         => /\ EndedOnFinal(streams'[i])
            /\ ((lastOp'.op = "readChunk" /\ lastOp'.id = i)
                  \/ streams'[i].undisturbed)
                 => HoldsFinal(store',
                               FrameOutcome(streams'[i].cands[
                                              Len(streams'[i].cands)]))
            /\ streams'[i].undisturbed
                 => store'.events = EventsOf(streams'[i].cands)
            /\ (i <= Len(streams) /\ streams[i].pc = "returned")
                 => /\ streams'[i].cands = streams[i].cands
                    /\ streams'[i].pos = streams[i].pos
                    /\ ~(lastOp'.op \in StreamOps /\ lastOp'.id = i)]_vars

\* C15 witness: a call running alone has returned on a final response that
\* was followed by a frame in the same chunk, with a chunk left unread.
C15_Witness ==
  \E i \in 1..Len(streams) :
    /\ streams[i].pc = "returned"
    /\ streams[i].undisturbed
    /\ Len(Delivered(streams[i])) > Len(Flatten(streams[i].cands))
    /\ streams[i].pos < Len(streams[i].wire)
    /\ store.events = <<>>
    /\ store.finalResponse = "ok"

\* The steps that empty the log.
ResetOps == {"reset", "startStreaming", "handleClearConversation"}

\* C16: between two resets the log is append-only and ordered: the log
\* before a step is a prefix of the log after it, a read appends the events
\* of the frames it has taken in the order of the frames, and the log of a
\* call that runs alone is that of its frames in arrival order.
C16_AppendOnlyInOrder ==
  [][/\ lastOp'.op \notin ResetOps => IsPrefix(store.events, store'.events)
     /\ \A i \in 1..Len(streams) :
          (lastOp'.op = "readChunk" /\ lastOp'.id = i)
            => /\ IsPrefix(streams[i].cands, streams'[i].cands)
               /\ store'.events =
                    store.events
                      \o EventsOf(SubSeq(streams'[i].cands,
                                         Len(streams[i].cands) + 1,
                                         Len(streams'[i].cands)))
     /\ \A i \in 1..Len(streams) :
          (lastOp'.op = "readChunk" /\ lastOp'.id = i
             /\ streams'[i].undisturbed)
            => store'.events = EventsOf(streams'[i].cands)]_vars

\* C16 witness: a call running alone has appended two different events in
\* two reads.
C16_Witness ==
  \E i \in 1..Len(streams) :
    /\ streams[i].undisturbed
    /\ streams[i].reads >= 2
    /\ Len(store.events) = 2
    /\ EventOrderId(store.events[1]) = "1"
    /\ EventOrderId(store.events[2]) = "7"
    /\ lastOp.op = "readChunk"

\* The step issues the streaming request r.
IssuesStream(r) ==
  /\ Len(requests') = Len(requests) + 1
  /\ r = Len(requests')
  /\ requests'[r].kind = "stream"

\* C17: the thread_id of streaming requests is generated once and sent
\* again by every later streaming request until resetWebSocket(): only
\* resetWebSocket() removes the stored id and only a streaming request that
\* finds none stores one, a new one; cancel(), the end and the failure of a
\* request leave it alone.
C17_ThreadIdStable ==
  [][/\ \A r \in 1..Len(requests') :
          IssuesStream(r)
            => /\ requests'[r].thread = threadId'
               /\ threadId' # 0
               /\ threadId # 0 => threadId' = threadId
               /\ threadId = 0
                    => \A q \in 1..Len(requests) :
                         requests[q].thread # threadId'
     /\ \A r \in 1..Len(requests) : requests'[r].thread = requests[r].thread
     /\ lastOp'.op = "resetWebSocket" => threadId' = 0
     /\ threadId' # threadId
          => \/ lastOp'.op = "resetWebSocket"
             \/ threadId = 0 /\ \E r \in 1..Len(requests') : IssuesStream(r)
    ]_vars

\* C17 witness: the second streaming request, issued after the first had
\* failed, has sent the first one's thread id, and resetWebSocket() has then
\* removed the stored id.
C17_Witness ==
  /\ Len(requests) = 2
  /\ requests[1].kind = "stream" /\ requests[2].kind = "stream"
  /\ requests[1].pc = "failed"
  /\ requests[1].thread = requests[2].thread
  /\ requests[2].thread # 0
  /\ lastOp.op = "resetWebSocket"
  /\ threadId = 0

\* The steps a request takes after its first stretch.
ApiOps ==
  {"apiFetchOk", "apiFetchFail", "apiReadChunk", "apiReadDone",
   "apiReadFail", "httpOk", "httpRetry", "retryWake", "httpFail"}

\* The error texts shown to the user.
ErrorTexts == {StreamError, SorryError}

\* The messages of a list that show an error text.
ErrorMessages(list) ==
  {<<list[m].id, list[m].content>> :
     m \in {n \in 1..Len(list) : list[n].content \in ErrorTexts}}

\* C18: no step of a request whose signal cancel() has aborted puts an
\* error text ("Error: Failed to fetch stream.", "Sorry, I encountered an
\* error.") into the message list.
C18_CancelShowsNoError ==
  [][\A r \in 1..Len(requests) :
       (lastOp'.op \in ApiOps /\ lastOp'.id = r /\ requests[r].aborted)
         => ErrorMessages(messages') \subseteq ErrorMessages(messages)]_vars

\* The steps in which a streaming request fails in transport.
StreamFailOps == {"apiFetchFail", "apiReadFail"}

\* The messages of a list with a given content.
WithContent(list, content) ==
  {m \in 1..Len(list) : list[m].content = content}

\* after is before without its loading placeholders and with one new
\* assistant message "Error: Failed to fetch stream." at the end.
FallbackAppended(before, after) ==
  /\ \A m \in 1..Len(after) : after[m].id # LoadingPlaceholder
  /\ Len(after)
       = Cardinality({m \in 1..Len(before) :
                        before[m].id # LoadingPlaceholder}) + 1
  /\ SubSeq(after, 1, Len(after) - 1) = withoutPlaceholder(before)
  /\ after[Len(after)].role = "assistant"
  /\ after[Len(after)].content = StreamError
  /\ \A m \in 1..Len(before) : before[m].id # after[Len(after)].id
  /\ Cardinality(WithContent(after, StreamError))
       = Cardinality(WithContent(withoutPlaceholder(before), StreamError))
           + 1

FailureMessages(op) ==
  IF op = "fetchFail" THEN FetchErrors
  ELSE IF op = "readFail" THEN {"network error"}
  ELSE {}

\* C20: a transport failure of a startStreaming call while the store is
\* Streaming (the fetch rejects, the status is not ok, there is no body
\* reader, or a read fails) moves the store to Error: error is the failure
\* message and isStreaming is false.
C20_TransportFailureIsError ==
  (lastOp.op \in {"fetchFail", "readFail"} /\ lastOp.was = "Streaming")
    => /\ store.error \in FailureMessages(lastOp.op)
       /\ store.error # NULL
       /\ ~store.isStreaming
       /\ Status(store) = "Error"

\* C20 witness: a read has just failed in a Streaming store that held an
\* event.
C20_Witness ==
  /\ lastOp.op = "readFail"
  /\ lastOp.was = "Streaming"
  /\ store.error = "network error"
  /\ store.events # <<>>
  /\ ~store.isStreaming

\* C21: when the stream closes while the buffer still holds an incomplete
\* or unparseable last frame, the store is in Error with error set, not
\* Complete.
C21_MalformedTerminalIsError ==
  \A i \in 1..Len(streams) :
    (lastOp.op = "readDone" /\ lastOp.id = i
       /\ ~trimIsEmpty(streams[i].buffer))
      => /\ store.error # NULL
         /\ Status(store) = "Error"

\* The event of a sentinel-prefixed response fails the strict parse or the
\* validation.
RejectedEvent(eventObj) ==
  ~eventObj.ok \/ ~isValidLogisticsStreamStep(eventObj.v)

\* The response of a frame is sentinel-prefixed and its event is rejected.
RejectedResponse(response) ==
  /\ Truthy(response)
  /\ response.t = "string"
  /\ isDictString(response.s)
  /\ RejectedEvent(JSONParse(normalizeDict(response.s)))

RejectedParsed(parsed) ==
  ~parsed.ok \/ RejectedResponse(Get(parsed.v, "response"))

\* A frame that fails JSON.parse, or whose sentinel-prefixed response fails
\* the strict parse or the validation.
Rejected(jsonStr) == RejectedParsed(JSONParse(jsonStr))

NotRejected(jsonStr) == ~Rejected(jsonStr)

\* The store after the frames of a list, taken in order.
RECURSIVE ApplyFrames(_, _)
ApplyFrames(st, cands) ==
  IF cands = <<>> THEN st
  ELSE ApplyFrames(handleFrame(st, Head(cands)).store, Tail(cands))

\* C22: a frame that fails JSON.parse, or whose sentinel-prefixed response
\* fails the strict parse or the validation, has no effect (no event, error
\* null, isStreaming and isComplete as they were): the store of a call that
\* runs alone is the one its other frames give, and the frames after a
\* rejected one are taken all the same.
C22_RejectedFrameDropped ==
  \A i \in 1..Len(streams) :
    (streams[i].undisturbed /\ streams[i].pc \in {"read", "returned"})
      => /\ \A j \in 1..Len(streams[i].cands) :
              Rejected(streams[i].cands[j])
                => FrameOutcome(streams[i].cands[j])
                     = [store |-> initialState, returned |-> FALSE]
         /\ View(store)
              = View(ApplyFrames(setStreaming(initialState, TRUE),
                                 SelectSeq(streams[i].cands, NotRejected)))
         /\ store.error = NULL
         /\ streams[i].pc = "read"
              => Flatten(streams[i].cands) \o streams[i].buffer
                   = Delivered(streams[i])

\* C22 witness: a call running alone has appended an event from a frame that
\* came after a rejected frame.
C22_Witness ==
  \E i \in 1..Len(streams) :
    /\ streams[i].undisturbed
    /\ streams[i].pc = "read"
    /\ store.events # <<>>
    /\ store.isStreaming
    /\ \E j \in 1..Len(streams[i].cands) :
         /\ Rejected(streams[i].cands[j])
         /\ \E k \in (j + 1)..Len(streams[i].cands) :
              FrameEvents(streams[i].cands[k]) # <<>>

\* A complete line that is blank or fails JSON.parse.
DiscardedLine(line) == trimIsEmpty(line) \/ ~JSONParse(line).ok

ParsedLine(line) == ~DiscardedLine(line)

\* The message list right after the call r of sendMessageWithCallback made
\* on the initial list.
SentList(r) ==
  <<Welcome, Msg(uuid("user", r), "user", Prompt, FALSE),
    Msg(LoadingPlaceholder, "assistant", "Thinking . . .", TRUE)>>

\* What the lines of a list, read as one chunk, make the request r do.
LinesOutcome(r, lines) ==
  processLines(SentList(r), <<>>, JoinLines(lines), uuid("assistant", r))

\* The state of the request r and of the list is the outcome a.
IsOutcome(r, a) ==
  /\ messages = a.messages
  /\ requests[r].deltas = a.deltas
  /\ requests[r].nodes = a.nodes

\* C23: in line framing a complete line that is blank or fails JSON.parse is
\* discarded and the stream goes on: the list, the tokens and the highlights
\* are those of the other lines, no error text is in the list, onError was
\* not called, and every line read so far was taken.
C23_BadLineDiscarded ==
  \A r \in 1..Len(requests) :
    requests[r].pc \in {"read", "done"}
      => /\ IsOutcome(r, LinesOutcome(r, SelectSeq(requests[r].cands,
                                                   ParsedLine)))
         /\ ErrorMessages(messages) = {}
         /\ requests[r].onError = 0
         /\ JoinLines(requests[r].cands) \o requests[r].buffer
              = Delivered(requests[r])

\* C23 witness: a token was applied from a line that came after a line that
\* fails JSON.parse.
C23_Witness ==
  \E r \in 1..Len(requests) :
    /\ requests[r].pc = "read"
    /\ Len(requests[r].cands) = 2
    /\ ~trimIsEmpty(requests[r].cands[1])
    /\ DiscardedLine(requests[r].cands[1])
    /\ requests[r].deltas = <<"a">>
    /\ messages[Len(messages)].content = "a"

\* The six fields of a literal are non-blank single-quoted strings.
WellFormed(fields) ==
  \A i \in 1..Len(fields) :
    fields[i].kind = "string" /\ ~trimIsEmpty(fields[i].s)

\* The structured event with the field values of a literal.
EventOf(fields) ==
  JObj([key \in {requiredStringFields[i] : i \in 1..Len(fields)} |->
          JStr(fields[CHOOSE i \in 1..Len(fields) :
                        requiredStringFields[i] = key].s)])

\* C24: the normalizer round-trips: once the frame of a literal-style event
\* was read, the log holds the event with the same field values when the six
\* fields are non-blank strings, and nothing otherwise.
C24_NormalizerRoundTrips ==
  \A i \in 1..Len(streams) : \A fields \in LiteralInputs :
    (/\ streams[i].pc = "read"
     /\ streams[i].wire = LiteralWire(fields)
     /\ streams[i].pos = Len(streams[i].wire))
      => store.events
           = IF WellFormed(fields) THEN <<EventOf(fields)>> ELSE <<>>

NonDecreasing(seq) == \A i \in 1..(Len(seq) - 1) : seq[i] <= seq[i + 1]

\* The call of a request failed twice and then succeeded.
FailedTwiceThenDone(q) == q.pc = "done" /\ Len(q.delays) = 2

\* C25: with three attempts allowed, a call that fails twice and then
\* succeeds was made three times, the observer that sendMessageWithCallback
\* passes was called exactly twice (sendMessage passes none), the delays do
\* not decrease, and the result is the value of the third attempt: it is
\* given to onSuccess once, onError is not called, and when a current
\* request has just got it, it is the last message.
C25_TwoFailuresThenSuccess ==
  \A r \in 1..Len(requests) :
    FailedTwiceThenDone(requests[r])
      => /\ requests[r].attempt = 3
         /\ requests[r].onRetry = IF requests[r].kind = "http" THEN 2 ELSE 0
         /\ NonDecreasing(requests[r].delays)
         /\ requests[r].delays = <<retryDelay(1), retryDelay(2)>>
         /\ requests[r].result \in RetryResponses
         /\ requests[r].onError = 0
         /\ requests[r].kind = "http"
              => /\ requests[r].onSuccess = 1
                 /\ (IsCurrent(requests[r]) /\ lastOp.op = "httpOk"
                       /\ lastOp.id = r)
                      => messages[Len(messages)].content = requests[r].result

\* C25 witness: a request with callbacks got its answer at the third attempt.
C25_Witness ==
  \E r \in 1..Len(requests) :
    /\ FailedTwiceThenDone(requests[r])
    /\ requests[r].kind = "http"
    /\ requests[r].onRetry = 2
    /\ requests[r].result = "ack"
    /\ messages[Len(messages)].content = "ack"

\* The requests made by sendMessage.
Sends == {r \in 1..Len(requests) : requests[r].kind = "send"}

\* C26: when every attempt fails, a retried call was made exactly maxRetries
\* times (a call that is not retried once) and the caller of sendMessage gets
\* the error of the last attempt; sendMessage calls no callback, leaves the
\* message list alone, and resets loading only for the current request:
\* loading is set exactly while the current request is waiting.
C26_LastFailurePropagates ==
  /\ \A r \in Sends :
       /\ requests[r].pc = "failed"
            => /\ requests[r].attempt
                    = IF shouldEnableRetries(requests[r].pattern)
                      THEN maxRetries ELSE 1
               /\ Len(requests[r].delays) = requests[r].attempt - 1
               /\ requests[r].result = AttemptError(requests[r].attempt)
       /\ requests[r].onSuccess = 0
       /\ requests[r].onError = 0
       /\ requests[r].onRetry = 0
  /\ Sends = 1..Len(requests) => messages = <<Welcome>>
  /\ loading["ChatArea"]
       <=> \E r \in 1..Len(requests) :
             IsCurrent(requests[r]) /\ Pending(requests[r])

\* C26 witness: a superseded call of sendMessage failed at its last attempt
\* while the call that followed it is waiting.
C26_Witness ==
  \E r \in Sends : \E q \in Sends :
    /\ requests[r].pc = "failed"
    /\ requests[r].attempt = maxRetries
    /\ requests[r].result = AttemptError(maxRetries)
    /\ ~IsCurrent(requests[r])
    /\ Pending(requests[q])
    /\ loading["ChatArea"]
    /\ lastOp.op = "httpFail" /\ lastOp.id = r

\* The requests whose call is made once: the streaming path, and the
\* non-streaming path of a pattern that does not enable retries.
MadeOnce ==
  {r \in 1..Len(requests) :
     \/ requests[r].kind = "stream"
     \/ ~shouldEnableRetries(requests[r].pattern)}

\* C27: retrying is opt-in: a streaming request and a non-streaming request
\* of a pattern that does not enable retries are attempted once, with no
\* delay and no observer call; a failed fetch or read of either streaming
\* reader ends the call; no call is attempted more than maxRetries times.
C27_RetryIsOptIn ==
  /\ \A r \in MadeOnce :
       /\ requests[r].attempt = 1
       /\ requests[r].delays = <<>>
       /\ requests[r].onRetry = 0
       /\ requests[r].pc # "backoff"
  /\ \A r \in 1..Len(requests) : requests[r].attempt <= maxRetries
  /\ lastOp.op \in {"apiFetchFail", "apiReadFail"}
       => requests[lastOp.id].pc = "failed"
  /\ lastOp.op \in {"fetchFail", "readFail"}
       => ~InFlight(streams[lastOp.id])

\* C27 witness: the fetch of a streaming request has failed, after a retried
\* non-streaming request reached its second attempt.
C27_Witness ==
  \E r \in MadeOnce : \E q \in 1..Len(requests) :
    /\ requests[r].kind = "stream"
    /\ requests[r].pc = "failed"
    /\ lastOp.op = "apiFetchFail" /\ lastOp.id = r
    /\ requests[q].attempt = 2

\* The turns started from ChatArea that have not finished.
ActiveStreams == {i \in 1..Len(streams) : InFlight(streams[i])}

ActiveRequests ==
  {r \in 1..Len(requests) :
     requests[r].inst = "ChatArea" /\ Pending(requests[r])}

\* C28: at most one conversation turn started from ChatArea is active: a
\* submission made while a request or a stream has not finished starts no
\* second one.
C28_OneActiveTurn ==
  Cardinality(ActiveStreams) + Cardinality(ActiveRequests) <= 1

\* What the text read so far by the request r makes the line loop do when
\* it comes as one chunk.
UnsplitOutcome(r) ==
  processLines(SentList(r), <<>>, Delivered(requests[r]),
               uuid("assistant", r))

\* The request r has done what the outcome a says, and keeps what a keeps.
SameAsUnsplit(r, a) ==
  /\ IsOutcome(r, a)
  /\ requests[r].cands = a.cands
  /\ requests[r].buffer = a.buffer
  /\ IndexOf(requests[r].buffer, "\n", 1) = 0

\* C29: in line framing the unfinished last line is kept as the buffer and
\* every complete line is parsed on its own: however the text is cut into
\* chunks, the tokens and the node highlights a current request has applied,
\* the lines it has taken, the list and the buffer are those of the text
\* read so far taken as one chunk.
C29_LineSplitInvariance ==
  \A r \in 1..Len(requests) :
    requests[r].pc \in {"read", "done"} => SameAsUnsplit(r, UnsplitOutcome(r))

\* C29 witness: a node highlight was applied from the first line while the
\* second line, cut after its opening characters, waits in the buffer.
C29_Witness ==
  \E r \in 1..Len(requests) :
    /\ requests[r].pc = "read"
    /\ requests[r].nodes = <<"n">>
    /\ Len(requests[r].cands) = 1
    /\ Len(requests[r].buffer) >= 2
    /\ requests[r].buffer[1] = "{"
    /\ requests[r].pos < Len(requests[r].wire)

\* A line that parses and has no response, or an empty one.
Heartbeat(line) ==
  ParsedLine(line) /\ ~Truthy(Get(JSONParse(line).v, "response"))

NotHeartbeat(line) == ~Heartbeat(line)

\* A line that parses and names a node.
HasNode(line) == ParsedLine(line) /\ Truthy(Get(JSONParse(line).v, "node"))

\* The nodes named by the lines of a list, one for each line that names one.
RECURSIVE Highlights(_)
Highlights(lines) ==
  IF lines = <<>> THEN <<>>
  ELSE (IF HasNode(Head(lines))
        THEN <<toText(Get(JSONParse(Head(lines)).v, "node"))>> ELSE <<>>)
         \o Highlights(Tail(lines))

\* C30: in line framing a parsed line with no response, or an empty one, is
\* a heartbeat: the message list is the one the other lines make, so that
\* after heartbeats only it is the list as sent, loading placeholder
\* included; and onNodeHighlight was called once for each line that names a
\* node, heartbeats too.
C30_HeartbeatKeepsList ==
  \A r \in 1..Len(requests) :
    requests[r].pc \in {"read", "done"}
      => /\ messages
              = LinesOutcome(r, SelectSeq(requests[r].cands,
                                          NotHeartbeat)).messages
         /\ (\A j \in 1..Len(requests[r].cands) :
               Heartbeat(requests[r].cands[j]))
              => messages = SentList(r)
         /\ requests[r].nodes = Highlights(requests[r].cands)

\* C30 witness: two heartbeats were read, one with an empty response and one
\* with none; both nodes were highlighted and the placeholder is still the
\* last message.
C30_Witness ==
  \E r \in 1..Len(requests) :
    /\ requests[r].pc = "read"
    /\ Len(requests[r].cands) = 2
    /\ Heartbeat(requests[r].cands[1])
    /\ Heartbeat(requests[r].cands[2])
    /\ requests[r].nodes = <<"q", "n">>
    /\ messages[Len(messages)].id = LoadingPlaceholder

\* The text of a candidate from its first '{' on.
FromOpener(jsonStr) ==
  SubSeq(jsonStr, IndexOf(jsonStr, "{", 1), Len(jsonStr))

\* C31: the candidate of the brace-counted extractor is the text from the
\* opening '{' to the '}' that closes it: text before the opener is no part
\* of it, and the object is applied as it is without that text.
C31_CandidateFromOpener ==
  \A i \in 1..Len(streams) : \A j \in 1..Len(streams[i].cands) :
    /\ streams[i].cands[j] = FromOpener(streams[i].cands[j])
    /\ FrameOutcome(streams[i].cands[j])
         = FrameOutcome(FromOpener(streams[i].cands[j]))

\* The response of a candidate when it parses to an object with a non-empty
\* string response, the empty text otherwise.
ResponseText(parsed) ==
  IF parsed.ok /\ Get(parsed.v, "response").t = "string"
  THEN Get(parsed.v, "response").s ELSE <<>>

ResponseOf(jsonStr) == ResponseText(JSONParse(jsonStr))

\* The first two characters are {' or {".
OpensWithSentinel(response) ==
  /\ Len(response) >= 2
  /\ response[1] = "{"
  /\ response[2] \in {"'", "\""}

\* The candidate j of the stream i, with the response and the outcome of its
\* own, was classified by the opening of the response.
SentinelDecided(i, j, response, outcome) ==
  response # <<>>
    => IF OpensWithSentinel(response)
       THEN /\ ~outcome.returned
            /\ outcome.store.finalResponse = NULL
            /\ streams[i].undisturbed /\ j = Len(streams[i].cands)
                 => store.finalResponse = NULL
       ELSE /\ outcome.returned
            /\ j = Len(streams[i].cands)
            /\ streams[i].pc = "returned"
            /\ streams[i].undisturbed
                 => store.finalResponse = Str(response)

\* C34: a response is classified by its first two characters only: a
\* non-empty string that opens with neither sentinel is the final response
\* and ends the call, whatever it looks like; one that opens with a
\* sentinel is never the final response, also when it fails to parse or to
\* validate.
C34_SentinelDecides ==
  \A i \in 1..Len(streams) : \A j \in 1..Len(streams[i].cands) :
    SentinelDecided(i, j, ResponseOf(streams[i].cands[j]),
                    FrameOutcome(streams[i].cands[j]))

\* C34 witness: after a sentinel-prefixed response that fails the strict
\* parse and one that fails validation, the call has returned on a response
\* that opens with a brace but with no sentinel, leaving a frame untaken.
C34_Witness ==
  \E i \in 1..Len(streams) :
    /\ streams[i].undisturbed
    /\ streams[i].pc = "returned"
    /\ Len(streams[i].cands) = 3
    /\ OpensWithSentinel(ResponseOf(streams[i].cands[1]))
    /\ OpensWithSentinel(ResponseOf(streams[i].cands[2]))
    /\ store.finalResponse = "{ok}"
    /\ store.events = <<>>
    /\ Len(Delivered(streams[i])) > Len(Flatten(streams[i].cands))

\* C32: while no final response was reached, the candidates taken so far
\* followed by the buffer are the text read so far: a chunk's candidates and
\* the new buffer are the old buffer and the chunk, no character is lost or
\* taken twice; the buffer holds what follows the last closing '}', with no
\* complete candidate in it.
C32_BufferConserved ==
  \A i \in 1..Len(streams) :
    streams[i].pc \in {"read", "closed"}
      => /\ Flatten(streams[i].cands) \o streams[i].buffer
              = Delivered(streams[i])
         /\ jsonEndOf(streams[i].buffer) = 0

\* C32 witness: after two reads or more a frame was taken, and the blank
\* that follows it, with no opener after it, is kept as the buffer.
C32_Witness ==
  \E i \in 1..Len(streams) :
    /\ streams[i].pc = "read"
    /\ streams[i].reads >= 2
    /\ Len(streams[i].cands) = 1
    /\ streams[i].buffer = <<" ">>

\* The text taken by the first k candidates.
TakenBy(cands, k) == Flatten(SubSeq(cands, 1, k))

\* The frame of FrBraceStr cut at the '}' inside its string.
ClosedEarly == SubSeq(FrBraceStr, 1, 7)

\* Stream s has read the whole of FrBraceStr right after its k-th candidate,
\* and that candidate did not end the call.
BraceStrAfter(s, k) ==
  LET p == Len(TakenBy(s.cands, k)) IN
  /\ s.pc = "returned" => k < Len(s.cands)
  /\ Len(Delivered(s)) >= p + Len(FrBraceStr)
  /\ SubSeq(Delivered(s), p + 1, p + Len(FrBraceStr)) = FrBraceStr

\* C33: the depth counts the braces of string content too: a frame whose
\* string holds an unmatched '}' is cut at that brace and is not taken as
\* its own value, and no frame after it is: each is held in the buffer or
\* taken mis-framed, in a candidate that does not begin with its '{'; none
\* of these candidates has an effect on the store.
C33_QuotedBraceDesynchronizes ==
  \A i \in 1..Len(streams) : \A k \in 0..Len(streams[i].cands) :
    BraceStrAfter(streams[i], k)
      => /\ k < Len(streams[i].cands)
         /\ streams[i].cands[k + 1] = ClosedEarly
         /\ \A j \in (k + 1)..Len(streams[i].cands) :
              /\ streams[i].cands[j] \notin ExtractPieces
              /\ FrameOutcome(streams[i].cands[j]).store = initialState
              /\ (j > k + 1 => streams[i].cands[j][1] # "{")
         /\ streams[i].pc # "returned"

\* C33 witness: the frame with the quoted '}' and then a final response have
\* been read whole: one candidate, the frame cut early; the final response
\* is held in the buffer behind the rest of the first frame, and the store
\* has no final response.
C33_Witness ==
  \E i \in 1..Len(streams) :
    /\ Delivered(streams[i]) = FrBraceStr \o FrFinal
    /\ streams[i].pc = "read"
    /\ streams[i].cands = <<ClosedEarly>>
    /\ streams[i].buffer = <<"\"", "}">> \o FrFinal
    /\ store.finalResponse = NULL

\* C35: in every state of the group store currentOrderId is null when the
\* log is empty and is otherwise the order_id of the last event of the log.
C35_OrderIdOfLastEvent ==
  store.currentOrderId =
    IF store.events = <<>> THEN NULL
    ELSE Str(Get(store.events[Len(store.events)], "order_id").s)

\* C35 witness: a second call has reset the store and two events have been
\* appended since.
C35_Witness ==
  /\ Len(streams) >= 2
  /\ Len(store.events) >= 2
  /\ store.currentOrderId # NULL
  /\ lastOp.op = "readChunk"

\* C38: isStreaming and isComplete are never both true, whatever the
\* interleaving of the calls in flight.
C38_StreamingExcludesComplete == ~(store.isStreaming /\ store.isComplete)

\* C38 witness: while a later call was streaming, the stream of an earlier
\* call closed: the store is Complete and no longer streaming.
C38_Witness ==
  /\ lastOp.op = "readDone"
  /\ lastOp.id = 1
  /\ Len(streams) = 2
  /\ InFlight(streams[2])
  /\ lastOp.was = "Streaming"
  /\ store.isComplete
  /\ ~store.isStreaming

\* C39: whenever none of the requests issued through a useAgentAPI instance
\* is in flight, the loading flag of that instance is false.
C39_IdleMeansNotLoading ==
  \A inst \in DOMAIN loading :
    (\A r \in 1..Len(requests) :
       requests[r].inst = inst => ~Pending(requests[r]))
      => ~loading[inst]

\* The positions of the list that hold the assistant message of request r.
OwnMessages(r) ==
  {m \in 1..Len(messages) : messages[m].id = uuid("assistant", r)}

\* C36: after each chunk that a current streaming request has applied, once
\* it has applied a token the list holds exactly one message with the
\* request's assistant id, its content is the tokens applied so far, in
\* order, and the list holds no loading placeholder.
C36_OneAssistantMessage ==
  (lastOp.op = "apiReadChunk" /\ ~lastOp.stale
     /\ requests[lastOp.id].deltas # <<>>)
    => /\ Cardinality(OwnMessages(lastOp.id)) = 1
       /\ \A m \in OwnMessages(lastOp.id) :
            messages[m].content = Joined(requests[lastOp.id].deltas)
       /\ \A m \in 1..Len(messages) : messages[m].id # "loading-placeholder"

\* Call i has been made and is no longer in flight.
Terminated(i) == i <= Len(streams) /\ ~InFlight(streams[i])

\* C37: on a transport that closes or fails, every startStreaming call
\* terminates; the step that ends a call leaves the store with isStreaming
\* false and isComplete true, and a stream that closes with no final
\* response, in a call that ran alone, leaves the store Complete with
\* finalResponse null and error null.
C37_EveryCallTerminates ==
  /\ \A i \in 1..MaxStreams : (i <= Len(streams)) ~> Terminated(i)
  /\ []((lastOp.op \in StreamOps /\ Terminated(lastOp.id))
          => ~store.isStreaming /\ store.isComplete)
  /\ []((lastOp.op = "readDone" /\ streams[lastOp.id].undisturbed)
          => /\ Status(store) = "Complete"
             /\ store.finalResponse = NULL
             /\ store.error = NULL)

\* C37 witness: the second call, made after the first had ended, has read
\* events and no final response, and its stream has closed.
C37_Witness ==
  /\ lastOp.op = "readDone"
  /\ lastOp.id = 2
  /\ streams[2].undisturbed
  /\ store.events # <<>>
  /\ store.finalResponse = NULL
  /\ store.isComplete

====
